---------------------------- MODULE Spec2Model ----------------------------
(***************************************************************************)
(* logme: the structured log code (generate / validate / parse / decode), *)
(* the log event builder and console sink, the fetch proxy (egress) and   *)
(* the Express middleware (ingress).                                       *)
(*                                                                         *)
(* A string is a sequence of one-character strings, so that splitting,    *)
(* joining and matching are computed and not assumed.                      *)
(***************************************************************************)
EXTENDS Integers, Sequences, FiniteSets, TLC

VARIABLES
    runtime,    \* "library" | "browser" | "node": what the process runs
    scope,      \* the inputs drawn: "lean", overlapping exchanges over the lean
                \* sets; "wide", one exchange over the wide sets; "bodies",
                \* overlapping exchanges whose bodies carry secrets
    payload,    \* the value handed to sanitizeBody or to a body extractor
    text,       \* the string handed to the log code functions
    segs,       \* the six segment values text was generated from, or NoSegs
    edits,      \* how many single-character edits made text
    ret,        \* the last call of a log code function and what it returned
    now,        \* the clock (Date.now, performance.now)
    issued,     \* how many correlation ids generateCorrelationId has made
    console,    \* what console.log and console.error received, in order
    sinkFaults, \* whether JSON.stringify / console may throw in logToConsole
    windowFetch,\* window.fetch: OriginalFetch, or the proxy with its config
    fx,         \* egress exchanges: one record per call of the wrapped fetch
    expressCfg, \* the config createExpressLogger merged, or NoMiddleware
    sx          \* ingress exchanges: one record per request the middleware saw

codeVars == <<text, segs, edits, ret, payload>>

sharedVars == <<runtime, scope, now, issued, console, sinkFaults>>

fetchVars == <<windowFetch, fx>>

serverVars == <<expressCfg, sx>>

(***************************************************************************)
(* Bounds of the model.                                                    *)
(***************************************************************************)
MaxEdits == 1

MaxExchanges == 2

MaxWrites == 1

MaxEndCalls == 2

\* calls of createFetchProxy while stacked proxies are examined
MaxSetups == 3

\* the last value of Date.now() while overlapping requests are timed
MaxClock == 3

\* res.write calls of one exchange while the capture is examined
MaxCapturedWrites == 2

\* how many times the caller of fetch reads the body of the response it got
MaxCallerReads == 2

(***************************************************************************)
(* enums/LogCodes: LOG_CODES                                               *)
(***************************************************************************)
ENV == [FE |-> <<"F", "E">>, BE |-> <<"B", "E">>]

SERVICE ==
    [FETCH        |-> <<"1", "0", "0", "1">>,
     API          |-> <<"1", "0", "0", "2">>,
     AUTH         |-> <<"1", "0", "0", "3">>,
     USER         |-> <<"1", "0", "0", "4">>,
     PRODUCT      |-> <<"1", "0", "0", "5">>,
     ORDER        |-> <<"1", "0", "0", "6">>,
     PAYMENT      |-> <<"1", "0", "0", "7">>,
     NOTIFICATION |-> <<"1", "0", "0", "8">>,
     CART         |-> <<"1", "0", "0", "9">>,
     SHIPPING     |-> <<"1", "0", "1", "0">>,
     INVENTORY    |-> <<"1", "0", "1", "1">>]

CATEGORY == [REQUEST |-> <<"0", "1">>, RESPONSE |-> <<"0", "2">>]

ACTION_CODES == [SEND |-> <<"0", "1">>, RECEIVE |-> <<"0", "2">>, ERROR |-> <<"0", "3">>]

OUTCOME ==
    [SUCCESS |-> <<"0", "1">>, FAILURE |-> <<"0", "2">>,
     INVALID |-> <<"0", "3">>, TIMEOUT |-> <<"0", "4">>]

SEVERITY ==
    [INFO |-> <<"I">>, WARN |-> <<"W">>, ERROR |-> <<"E">>, DEBUG |-> <<"D">>]

Values(rec) == {rec[k] : k \in DOMAIN rec}

(***************************************************************************)
(* Characters.                                                             *)
(***************************************************************************)
UpperAZ ==
    {"A", "B", "C", "D", "E", "F", "G", "H", "I", "J", "K", "L", "M",
     "N", "O", "P", "Q", "R", "S", "T", "U", "V", "W", "X", "Y", "Z"}

Digit == {"0", "1", "2", "3", "4", "5", "6", "7", "8", "9"}

Dot == <<".">>

Undefined == "<undefined>"

Null == [tag |-> "null"]

(***************************************************************************)
(* LogUtils.generateLogCode: the template literal joins the six values    *)
(* with '.'.                                                               *)
(***************************************************************************)
generateLogCodeSwapped(env, service, category, action, outcome, severity) ==
    env \o Dot \o service \o Dot \o action \o Dot \o category \o Dot
        \o outcome \o Dot \o severity

generateLogCode(env, service, category, action, outcome, severity) ==
    env \o Dot \o service \o Dot \o category \o Dot \o action \o Dot
        \o outcome \o Dot \o severity

(***************************************************************************)
(* LogUtils.isValidLogCode: /^[A-Z]{2}\.\d{4}\.\d{2}\.\d{2}\.\d{2}\.[IWED]$/ *)
(* Every item of the pattern has a fixed width, and the pattern is         *)
(* anchored at both ends (no m flag: $ is the end of the input), so the    *)
(* test is a match of the whole string, class by class.                    *)
(***************************************************************************)
Repeat(cls, n) == [i \in 1..n |-> cls]

LogCodePattern ==
    Repeat(UpperAZ, 2) \o <<{"."}>> \o Repeat(Digit, 4) \o <<{"."}>>
        \o Repeat(Digit, 2) \o <<{"."}>> \o Repeat(Digit, 2) \o <<{"."}>>
        \o Repeat(Digit, 2) \o <<{"."}>> \o <<{"I", "W", "E", "D"}>>

RegexTest(pattern, s) ==
    /\ Len(s) = Len(pattern)
    /\ \A i \in 1..Len(pattern) : s[i] \in pattern[i]

isValidLogCodeUnanchored(code) ==
    /\ Len(code) >= Len(LogCodePattern)
    /\ \A i \in 1..Len(LogCodePattern) : code[i] \in LogCodePattern[i]

isValidLogCode(code) == RegexTest(LogCodePattern, code)

(***************************************************************************)
(* String.prototype.split with a one-character separator.                  *)
(***************************************************************************)
RECURSIVE SplitFrom(_, _, _, _)
SplitFrom(s, sep, i, cur) ==
    IF i > Len(s) THEN <<cur>>
    ELSE IF s[i] = sep THEN <<cur>> \o SplitFrom(s, sep, i + 1, <<>>)
    ELSE SplitFrom(s, sep, i + 1, Append(cur, s[i]))

Split(s, sep) == SplitFrom(s, sep, 1, <<>>)

(***************************************************************************)
(* LogUtils.parseLogCode                                                   *)
(***************************************************************************)
At(parts, i) == IF i <= Len(parts) THEN parts[i] ELSE <<>>

parseLogCodeUnchecked(code) ==
    LET parts == Split(code, ".")
    IN  [tag |-> "segments",
         env |-> At(parts, 1), service |-> At(parts, 2), category |-> At(parts, 3),
         action |-> At(parts, 4), outcome |-> At(parts, 5), severity |-> At(parts, 6)]

parseLogCode(code) ==
    IF ~isValidLogCode(code) THEN Null
    ELSE LET parts == Split(code, ".")
         IN  [tag |-> "segments",
              env |-> parts[1], service |-> parts[2], category |-> parts[3],
              action |-> parts[4], outcome |-> parts[5], severity |-> parts[6]]

(***************************************************************************)
(* LogUtils.mapSeverityToLogLevel: a lookup in an object literal; a key    *)
(* the literal does not have reads as undefined.                           *)
(***************************************************************************)
SeverityMapping ==
    (SEVERITY.INFO :> "info") @@ (SEVERITY.WARN :> "warn")
        @@ (SEVERITY.ERROR :> "error") @@ (SEVERITY.DEBUG :> "debug")

mapSeverityToLogLevelSwapped(severity) ==
    IF severity = SEVERITY.WARN THEN "error"
    ELSE IF severity \in DOMAIN SeverityMapping THEN SeverityMapping[severity]
    ELSE Undefined

mapSeverityToLogLevel(severity) ==
    IF severity \in DOMAIN SeverityMapping THEN SeverityMapping[severity]
    ELSE Undefined

(***************************************************************************)
(* LogUtils.createLogData: throws on a code parseLogCode rejects.  The     *)
(* timestamp is the clock's reading when the event is built.               *)
(***************************************************************************)
Thrown(what) == [tag |-> "thrown", error |-> what]

createLogDataUnguarded(code, message, correlationId, data, timestamp) ==
    LET parsedCode == parseLogCodeUnchecked(code)
    IN  [tag |-> "logData", timestamp |-> timestamp, code |-> code,
         message |-> message,
         level |-> mapSeverityToLogLevel(parsedCode.severity),
         correlationId |-> correlationId, data |-> data]

createLogData(code, message, correlationId, data, timestamp) ==
    LET parsedCode == parseLogCode(code)
    IN  IF parsedCode = Null THEN Thrown("Invalid log code format")
        ELSE [tag |-> "logData", timestamp |-> timestamp, code |-> code,
              message |-> message,
              level |-> mapSeverityToLogLevel(parsedCode.severity),
              correlationId |-> correlationId, data |-> data]

(***************************************************************************)
(* LogDecoder: the six lookup maps and decodeLogCode.                      *)
(***************************************************************************)
KeyOf(rec, code) == CHOOSE k \in DOMAIN rec : rec[k] = code

ENV_MAP ==
    [code \in Values(ENV) |->
        LET key == KeyOf(ENV, code)
        IN  [key |-> key,
             description |-> IF key = "FE" THEN "Frontend" ELSE "Backend"]]

\* `${key.charAt(0)}${key.slice(1).toLowerCase()} Service`, key by key
ServiceDescription ==
    [FETCH |-> "Fetch Service", API |-> "Api Service", AUTH |-> "Auth Service",
     USER |-> "User Service", PRODUCT |-> "Product Service",
     ORDER |-> "Order Service", PAYMENT |-> "Payment Service",
     NOTIFICATION |-> "Notification Service", CART |-> "Cart Service",
     SHIPPING |-> "Shipping Service", INVENTORY |-> "Inventory Service"]

SERVICE_MAP ==
    [code \in Values(SERVICE) |->
        LET key == KeyOf(SERVICE, code)
        IN  [key |-> key, description |-> ServiceDescription[key]]]

CATEGORY_MAP ==
    (CATEGORY.REQUEST :> [key |-> "REQUEST", description |-> "HTTP Request"])
        @@ (CATEGORY.RESPONSE :> [key |-> "RESPONSE", description |-> "HTTP Response"])

ACTION_MAP ==
    (ACTION_CODES.SEND :> [key |-> "SEND", description |-> "Send HTTP request"])
        @@ (ACTION_CODES.RECEIVE :> [key |-> "RECEIVE", description |-> "Receive HTTP response"])
        @@ (ACTION_CODES.ERROR :> [key |-> "ERROR", description |-> "Error in HTTP communication"])

OUTCOME_MAP ==
    (OUTCOME.SUCCESS :> [key |-> "SUCCESS", description |-> "Successful operation"])
        @@ (OUTCOME.FAILURE :> [key |-> "FAILURE", description |-> "Failed operation"])
        @@ (OUTCOME.INVALID :> [key |-> "INVALID", description |-> "Invalid operation"])
        @@ (OUTCOME.TIMEOUT :> [key |-> "TIMEOUT", description |-> "Operation timed out"])

SEVERITY_MAP ==
    (SEVERITY.INFO :> [key |-> "INFO", description |-> "Informational"])
        @@ (SEVERITY.WARN :> [key |-> "WARN", description |-> "Warning"])
        @@ (SEVERITY.ERROR :> [key |-> "ERROR", description |-> "Error"])
        @@ (SEVERITY.DEBUG :> [key |-> "DEBUG", description |-> "Debug"])

\* { code, key: MAP.get(code)?.key, description: MAP.get(code)?.description || fallback }
DecodeSegmentNoFallback(map, code, fallback) ==
    [code |-> code,
     key |-> IF code \in DOMAIN map THEN map[code].key ELSE Undefined,
     description |-> IF code \in DOMAIN map THEN map[code].description ELSE Undefined]

DecodeSegment(map, code, fallback) ==
    [code |-> code,
     key |-> IF code \in DOMAIN map THEN map[code].key ELSE Undefined,
     description |-> IF code \in DOMAIN map THEN map[code].description ELSE fallback]

decodeLogCode(code) ==
    LET parsedCode == parseLogCode(code)
    IN  IF parsedCode = Null THEN Null
        ELSE [tag |-> "decoded", code |-> code,
              env |-> DecodeSegment(ENV_MAP, parsedCode.env, "Unknown Environment"),
              service |-> DecodeSegment(SERVICE_MAP, parsedCode.service, "Unknown Service"),
              category |-> DecodeSegment(CATEGORY_MAP, parsedCode.category, "Unknown Category"),
              action |-> DecodeSegment(ACTION_MAP, parsedCode.action, "Unknown Action"),
              outcome |-> DecodeSegment(OUTCOME_MAP, parsedCode.outcome, "Unknown Outcome"),
              severity |-> DecodeSegment(SEVERITY_MAP, parsedCode.severity, "Unknown Severity")]

(***************************************************************************)
(* LogUtils.generateCorrelationId: `${prefix}-${Date.now()}-${random}`.    *)
(* The random suffix is abstracted to a serial number: two ids made by the *)
(* process differ.                                                         *)
(***************************************************************************)
generateCorrelationId(prefix, time, serial) ==
    [tag |-> "generated", prefix |-> prefix, time |-> time, serial |-> serial]

(***************************************************************************)
(* LogUtils.logToConsole: console.error for level 'error', console.log    *)
(* otherwise; one call, one record.                                        *)
(***************************************************************************)
\* console.error for 'warn' as well
logToConsoleWarnAsError(logData) ==
    [channel |-> IF logData.level \in {"error", "warn"} THEN "error" ELSE "log",
     record |-> logData]

logToConsole(logData) ==
    [channel |-> IF logData.level = "error" THEN "error" ELSE "log",
     record |-> logData]

(***************************************************************************)
(* Values of the two pipelines.                                            *)
(***************************************************************************)
Exchanges == 1..MaxExchanges

OriginalFetch == [tag |-> "originalFetch"]

NoMiddleware == [tag |-> "none"]

NotCalled == [tag |-> "notCalled"]

Pending == [tag |-> "pending"]

NoValue == [tag |-> "none"]

NoCid == [tag |-> "none"]

IdleFetch ==
    [st |-> "idle", cid |-> NoCid, stack |-> FALSE, under |-> NotCalled,
     result |-> NoValue, content |-> "none", start |-> 0,
     bodyUsed |-> FALSE, clone |-> "none", reads |-> <<>>,
     inner |-> <<>>, originalCalls |-> 0, via |-> NotCalled]

IdleRequest ==
    [st |-> "idle", cid |-> NoCid, req |-> NoValue, wrapped |-> FALSE,
     write |-> "originalWrite", end |-> "originalEnd", restores |-> 0,
     header |-> NoCid, inbound |-> NoCid, stored |-> NoCid,
     nextCalls |-> 0, threw |-> <<>>, chunks |-> <<>>,
     sent |-> <<>>, endCalls |-> 0, start |-> 0, given |-> <<>>,
     errSeen |-> <<>>, errNext |-> <<>>, calls |-> <<>>]

(***************************************************************************)
(* The log code functions called by the library's user.                    *)
(***************************************************************************)
NoSegs == <<>>

Join(parts, sep) ==
    LET RECURSIVE J(_)
        J(i) == IF i > Len(parts) THEN <<>>
                ELSE IF i = 1 THEN parts[1] \o J(2)
                ELSE <<sep>> \o parts[i] \o J(i + 1)
    IN  J(1)

\* __tests__/LogUtils.test.ts and the decoder's tests: the strings they try
SampleTexts ==
    { Join(<<ENV.BE, SERVICE.AUTH, CATEGORY.REQUEST, ACTION_CODES.SEND, OUTCOME.SUCCESS, SEVERITY.INFO>>, "."),
      Join(<<ENV.FE, SERVICE.FETCH, CATEGORY.RESPONSE, ACTION_CODES.RECEIVE, OUTCOME.FAILURE, SEVERITY.WARN>>, "."),
      Join(<<ENV.BE, <<"9", "9", "9", "9">>, <<"9", "9">>, <<"9", "9">>, <<"9", "9">>, SEVERITY.INFO>>, "."),
      Join(<<ENV.BE, SERVICE.AUTH, CATEGORY.REQUEST, ACTION_CODES.SEND, OUTCOME.SUCCESS>>, "."),
      Join(<<ENV.FE, SERVICE.FETCH, CATEGORY.RESPONSE, ACTION_CODES.RECEIVE, SEVERITY.WARN>>, "."),
      Join(<<ENV.BE, SERVICE.AUTH>>, "."),
      Join(<<ENV.BE, SERVICE.AUTH, CATEGORY.REQUEST, ACTION_CODES.SEND, OUTCOME.SUCCESS, <<"X">>>>, "."),
      <<"i", "n", "v", "a", "l", "i", "d">>,
      <<>> }

EditChars == {"Z", "z", "7", "."}

DeleteAt(s, i) == SubSeq(s, 1, i - 1) \o SubSeq(s, i + 1, Len(s))

ReplaceAt(s, i, c) == [s EXCEPT ![i] = c]

InsertAt(s, i, c) == SubSeq(s, 1, i - 1) \o <<c>> \o SubSeq(s, i, Len(s))

Messages == {"m1", "m2"}

CorrelationIds == {"c1", "c2"}

Payloads == {Undefined, "d1"}

Idle == [op |-> "none"]

NoPayload == [tag |-> "none"]

InitCode ==
    /\ runtime = "library" /\ scope = "lean" /\ payload = NoPayload
    /\ text = <<>> /\ segs = NoSegs /\ edits = 0 /\ ret = Idle
    /\ now = 0 /\ issued = 0 /\ console = <<>> /\ sinkFaults = FALSE
    /\ windowFetch = OriginalFetch /\ fx = [e \in Exchanges |-> IdleFetch]
    /\ expressCfg = NoMiddleware /\ sx = [e \in Exchanges |-> IdleRequest]

Fresh == ret = Idle /\ edits = 0 /\ text = <<>> /\ segs = NoSegs

CallGenerateLogCode ==
    /\ runtime = "library" /\ Fresh
    /\ \E env \in Values(ENV), service \in Values(SERVICE),
          category \in Values(CATEGORY), action \in Values(ACTION_CODES),
          outcome \in Values(OUTCOME), severity \in Values(SEVERITY) :
            /\ text' = generateLogCode(env, service, category, action, outcome, severity)
            /\ segs' = <<env, service, category, action, outcome, severity>>
    /\ ret' = [op |-> "generateLogCode"]
    /\ UNCHANGED <<edits, payload, sharedVars, fetchVars, serverVars>>

\* a string that comes from outside the library
SupplyText ==
    /\ runtime = "library" /\ Fresh
    /\ \E t \in SampleTexts : text' = t
    /\ ret' = [op |-> "supplied"]
    /\ UNCHANGED <<segs, edits, payload, sharedVars, fetchVars, serverVars>>

EditText ==
    /\ runtime = "library" /\ ret = [op |-> "supplied"] /\ edits < MaxEdits
    /\ \/ \E i \in 1..Len(text) : text' = DeleteAt(text, i)
       \/ \E i \in 1..Len(text), c \in EditChars : text' = ReplaceAt(text, i, c)
       \/ \E i \in 1..(Len(text) + 1), c \in EditChars : text' = InsertAt(text, i, c)
    /\ edits' = edits + 1
    /\ UNCHANGED <<segs, ret, payload, sharedVars, fetchVars, serverVars>>

HaveText == ret.op \in {"generateLogCode", "supplied"}

CallIsValidLogCode ==
    /\ runtime = "library" /\ HaveText
    /\ ret' = [op |-> "isValidLogCode", value |-> isValidLogCode(text)]
    /\ UNCHANGED <<text, segs, edits, payload, sharedVars, fetchVars, serverVars>>

CallParseLogCode ==
    /\ runtime = "library" /\ HaveText
    /\ ret' = [op |-> "parseLogCode", value |-> parseLogCode(text)]
    /\ UNCHANGED <<text, segs, edits, payload, sharedVars, fetchVars, serverVars>>

CallDecodeLogCode ==
    /\ runtime = "library" /\ HaveText
    /\ ret' = [op |-> "decodeLogCode", value |-> decodeLogCode(text)]
    /\ UNCHANGED <<text, segs, edits, payload, sharedVars, fetchVars, serverVars>>

CallCreateLogData ==
    /\ runtime = "library" /\ HaveText
    /\ \E message \in Messages, correlationId \in CorrelationIds, data \in Payloads :
          ret' = [op |-> "createLogData",
                  value |-> createLogData(text, message, correlationId, data, now)]
    /\ UNCHANGED <<text, segs, edits, payload, sharedVars, fetchVars, serverVars>>

\* mapSeverityToLogLevel on the first character of the text, whatever it is
CallMapSeverityToLogLevel ==
    /\ runtime = "library" /\ ret = [op |-> "supplied"] /\ Len(text) > 0
    /\ ret' = [op |-> "mapSeverityToLogLevel", arg |-> <<text[1]>>,
               value |-> mapSeverityToLogLevel(<<text[1]>>)]
    /\ UNCHANGED <<text, segs, edits, payload, sharedVars, fetchVars, serverVars>>

(***************************************************************************)
(* LogUtils.generateCorrelationId as the string it builds:                 *)
(* `${prefix}-${Date.now()}-${Math.random().toString(36).substring(2, 10)}`*)
(* A value of Math.random() is given by the digits of its fraction in base *)
(* 36, as many as toString(36) prints: none for 0, one for 0.5 ('0.i').    *)
(***************************************************************************)
DecimalDigits == <<"0", "1", "2", "3", "4", "5", "6", "7", "8", "9">>

\* `${Date.now()}`
RECURSIVE DecimalString(_)
DecimalString(n) ==
    IF n < 10 THEN <<DecimalDigits[n + 1]>>
    ELSE Append(DecimalString(n \div 10), DecimalDigits[(n % 10) + 1])

\* Number.prototype.toString(36) of a value in [0, 1)
ToString36(fraction) ==
    IF fraction = <<>> THEN <<"0">> ELSE <<"0", ".">> \o fraction

\* String.prototype.substring(start, end)
SubstringFrom(chars, start, end) ==
    SubSeq(chars, start + 1, IF end < Len(chars) THEN end ELSE Len(chars))

Hyphen == <<"-">>

DefaultPrefix == <<"l", "o", "g">>

generateCorrelationIdText(prefix, time, fraction) ==
    (IF prefix = Undefined THEN DefaultPrefix ELSE prefix)
        \o Hyphen \o DecimalString(time) \o Hyphen
        \o SubstringFrom(ToString36(fraction), 2, 10)

Prefixes == {Undefined, <<"f", "e", "t", "c", "h">>, <<"t", "e", "s", "t">>}

ClockValues == {0, 9, 10, 1730}

\* fractions of 0 to 11 base-36 digits
FractionDigits == <<"i", "4", "f", "z", "0", "k", "1", "a", "9", "x", "m">>

RandomValues ==
    {SubSeq(FractionDigits, from, to) : from \in 1..2, to \in 0..Len(FractionDigits)}

CallGenerateCorrelationId ==
    /\ runtime = "library" /\ Fresh
    /\ \E prefix \in Prefixes, time \in ClockValues, fraction \in RandomValues :
          ret' = [op |-> "generateCorrelationId", prefix |-> prefix,
                  time |-> time, random |-> fraction,
                  value |-> generateCorrelationIdText(prefix, time, fraction)]
    /\ UNCHANGED <<text, segs, edits, payload, sharedVars, fetchVars, serverVars>>

\* logToConsole on the record createLogData returned, or on that record with
\* a level that is none of the four (the type is not checked at run time)
LevelsGiven(logData) == {logData.level, "trace"}

CallLogToConsole ==
    /\ runtime = "library"
    /\ ret.op = "createLogData" /\ ret.value.tag = "logData"
    /\ \E level \in LevelsGiven(ret.value) :
          LET logData == [ret.value EXCEPT !.level = level]
          IN  /\ console' = Append(console, [ex |-> 0] @@ logToConsole(logData))
              /\ ret' = [op |-> "logToConsole", arg |-> logData,
                         before |-> Len(console)]
    /\ UNCHANGED <<runtime, scope, now, issued, sinkFaults, text, segs, edits, payload,
                   fetchVars, serverVars>>

NextCode ==
    \/ CallLogToConsole
    \/ CallGenerateCorrelationId
    \/ CallGenerateLogCode
    \/ SupplyText
    \/ EditText
    \/ CallIsValidLogCode
    \/ CallParseLogCode
    \/ CallDecodeLogCode
    \/ CallCreateLogData
    \/ CallMapSeverityToLogLevel

vars == <<codeVars, sharedVars, fetchVars, serverVars>>

SpecCode == InitCode /\ [][NextCode]_vars

(***************************************************************************)
(* A step of a handler calls createLogData and logToConsole several times. *)
(* A run is what the step has written so far: out, the console entries; n, *)
(* the calls of logToConsole made; thrown, whether an exception is in      *)
(* flight.  With sinkFaults, the k-th call of logToConsole in the step     *)
(* throws (JSON.stringify on a payload it cannot serialize); k = 0 is no   *)
(* fault.  createLogData's own throw is carried the same way.              *)
(***************************************************************************)
NoRun == [out |-> <<>>, n |-> 0, thrown |-> FALSE]

FaultChoices == IF sinkFaults THEN 0..3 ELSE {0}

\* const logData = createLogData(...); logToConsole(logData);
Say(run, logData, k) ==
    IF run.thrown THEN run
    ELSE IF logData.tag = "thrown" THEN [run EXCEPT !.thrown = TRUE]
    ELSE IF run.n + 1 = k THEN [run EXCEPT !.n = run.n + 1, !.thrown = TRUE]
    ELSE [run EXCEPT !.n = run.n + 1,
                     !.out = Append(run.out, logToConsole(logData))]

\* try { ... } catch (error) { logToConsole(createLogData(...)) }
Caught(run, logData, k) ==
    IF run.thrown THEN Say([run EXCEPT !.thrown = FALSE], logData, k) ELSE run

\* the console after a run by exchange ex (ex is not part of the program:
\* it names, for the properties, the exchange that wrote the entry)
Written(run, ex) ==
    console \o [i \in 1..Len(run.out) |-> [ex |-> ex] @@ run.out[i]]

SinkError == [tag |-> "error", name |-> "SinkError"]

(***************************************************************************)
(* FetchLogger: the config, the events and the helpers.                    *)
(***************************************************************************)
FetchDefaultConfig ==
    [logFunctionName |-> TRUE, logRequestResponse |-> TRUE,
     logParameters |-> FALSE, logResponseContent |-> FALSE]

\* the configs passed to createFetchProxy; stacked proxies are examined
\* without parameter and content logging
FetchConfigs ==
    IF scope = "stacked"
    THEN [logFunctionName : BOOLEAN, logRequestResponse : BOOLEAN,
          logParameters : {FALSE}, logResponseContent : {FALSE}]
    ELSE [logFunctionName : BOOLEAN, logRequestResponse : BOOLEAN,
          logParameters : BOOLEAN, logResponseContent : BOOLEAN]

\* what the underlying fetch can settle with
Responses == [tag : {"response"}, ok : BOOLEAN, contentType : {"json", "text", "other"}]

NetworkError == [tag |-> "error", name |-> "TypeError: Failed to fetch"]

NullReferenceError == [tag |-> "error", name |-> "TypeError: reading 'message' of null"]

Rejections == {NetworkError, Null}

FetchCode(category, action, outcome, severity) ==
    generateLogCode(ENV.FE, SERVICE.FETCH, category, action, outcome, severity)

FetchRequestLog(cid, stack) ==
    createLogData(
        FetchCode(CATEGORY.REQUEST, ACTION_CODES.SEND, OUTCOME.SUCCESS, SEVERITY.INFO),
        "request", cid, [stack |-> stack], now)

FetchParametersLog(cid) ==
    createLogData(
        FetchCode(CATEGORY.REQUEST, ACTION_CODES.SEND, OUTCOME.SUCCESS, SEVERITY.DEBUG),
        "parameters", cid, [headers |-> "headers", body |-> "body"], now)

FetchParametersErrorLog(cid) ==
    createLogData(
        FetchCode(CATEGORY.REQUEST, ACTION_CODES.SEND, OUTCOME.FAILURE, SEVERITY.WARN),
        "parameters-error", cid, [error |-> "message"], now)

logRequestParameters(run, cid, k) ==
    IF run.thrown THEN run
    ELSE Caught(Say(run, FetchParametersLog(cid), k), FetchParametersErrorLog(cid), k)

FetchResponseLogAlwaysInfo(cid, response) ==
    createLogData(
        FetchCode(CATEGORY.RESPONSE, ACTION_CODES.RECEIVE, OUTCOME.SUCCESS, SEVERITY.INFO),
        "response", cid, [ok |-> response.ok], now)

FetchResponseLog(cid, response) ==
    LET isSuccess == response.ok
        severity == IF isSuccess THEN SEVERITY.INFO ELSE SEVERITY.WARN
        outcome == IF isSuccess THEN OUTCOME.SUCCESS ELSE OUTCOME.FAILURE
    IN  createLogData(
            FetchCode(CATEGORY.RESPONSE, ACTION_CODES.RECEIVE, outcome, severity),
            "response", cid, [ok |-> response.ok], now)

FetchContentLog(cid, response, body) ==
    LET outcome == IF response.ok THEN OUTCOME.SUCCESS ELSE OUTCOME.FAILURE
    IN  createLogData(
            FetchCode(CATEGORY.RESPONSE, ACTION_CODES.RECEIVE, outcome, SEVERITY.DEBUG),
            "content", cid, [body |-> body], now)

FetchContentErrorLog(cid) ==
    createLogData(
        FetchCode(CATEGORY.RESPONSE, ACTION_CODES.RECEIVE, OUTCOME.FAILURE, SEVERITY.WARN),
        "content-error", cid, [error |-> "message"], now)

FetchErrorLog(cid, error, stack) ==
    createLogData(
        FetchCode(CATEGORY.REQUEST, ACTION_CODES.ERROR, OUTCOME.FAILURE, SEVERITY.ERROR),
        "error", cid, [error |-> error.name, calledFrom |-> stack], now)

FetchFunctionNameLog(cid, stack) ==
    createLogData(
        FetchCode(CATEGORY.REQUEST, ACTION_CODES.SEND, OUTCOME.SUCCESS, SEVERITY.DEBUG),
        "function-name", cid, [calledFrom |-> stack], now)

\* logFetchError: reading error.message of null or undefined throws before
\* anything is logged
logFetchError(run, cid, error, stack, k) ==
    IF error = Null THEN [run EXCEPT !.thrown = TRUE]
    ELSE Say(run, FetchErrorLog(cid, error, stack), k)

\* the synchronous start of logResponseContent: a content type that is
\* neither JSON nor text is logged at once, the other two await the body.
\* Nothing it throws leaves it: it is an async function nobody awaits.
StartResponseContent(run, cid, response, k) ==
    IF response.contentType = "other"
    THEN LET r == Caught(Say(run, FetchContentLog(cid, response, "Binary data or unsupported content type"), k),
                         FetchContentErrorLog(cid), k)
         IN  [r EXCEPT !.thrown = FALSE]
    ELSE run

(***************************************************************************)
(* createFetchProxy: window.fetch becomes the proxy.                       *)
(***************************************************************************)
Untouched ==
    /\ scope = "lean" /\ payload = NoPayload
    /\ text = <<>> /\ segs = NoSegs /\ edits = 0 /\ ret = Idle
    /\ now = 0 /\ issued = 0 /\ console = <<>>
    /\ windowFetch = OriginalFetch /\ fx = [e \in Exchanges |-> IdleFetch]
    /\ expressCfg = NoMiddleware /\ sx = [e \in Exchanges |-> IdleRequest]

InitBrowser == runtime = "browser" /\ sinkFaults = FALSE /\ Untouched

\* the configs of the proxies a call of f passes through, outermost first
RECURSIVE Layers(_)
Layers(f) ==
    IF f.tag # "proxy" THEN <<>> ELSE <<f.mergedConfig>> \o Layers(f.target)

\* createFetchProxy is called once, and up to MaxSetups times where stacked
\* proxies are examined
SetupLimit == IF scope = "stacked" THEN MaxSetups ELSE 1

\* the proxy always made around the fetch of the platform
WrapTargetOriginal(current) == OriginalFetch

\* const originalFetch = window.fetch
WrapTarget(current) == current

\* how many times createFetchProxy was called (not part of the program)
Setups(f) == IF f.tag # "proxy" THEN 0 ELSE f.setups

createFetchProxy ==
    /\ runtime = "browser" /\ Setups(windowFetch) < SetupLimit
    /\ \E config \in FetchConfigs :
          windowFetch' = [tag |-> "proxy", mergedConfig |-> config @@ FetchDefaultConfig,
                          target |-> WrapTarget(windowFetch),
                          setups |-> Setups(windowFetch) + 1]
    /\ UNCHANGED <<fx, codeVars, sharedVars, serverVars>>

(***************************************************************************)
(* The proxy's apply handler, up to `await target.apply(...)`: the request *)
(* event, the parameters, then the call of the original fetch.             *)
(***************************************************************************)
ApplyCallRunSilent(mergedConfig, cid, stack, k) == NoRun

ApplyCallRun(mergedConfig, cid, stack, k) ==
    LET r1 == IF mergedConfig.logRequestResponse
              THEN Say(NoRun, FetchRequestLog(cid, stack), k) ELSE NoRun
    IN  IF mergedConfig.logRequestResponse /\ mergedConfig.logParameters
        THEN logRequestParameters(r1, cid, k) ELSE r1

\* the handlers of the proxies from layer i inwards, each up to its
\* `await target.apply(...)`, which calls the next one: [run, cids].  Only
\* the outermost handler is examined with emission faults.
\* what a handler wrote, after what the handlers around it wrote
Continued(run, r) ==
    [out |-> run.out \o r.out, n |-> run.n + r.n, thrown |-> r.thrown]

RECURSIVE CallThrough(_, _, _, _, _, _)
CallThrough(configs, i, run, cids, stack, k) ==
    IF i > Len(configs) \/ run.thrown THEN [run |-> run, cids |-> cids]
    ELSE CallThrough(configs, i + 1,
             Continued(run,
                 ApplyCallRun(configs[i], generateCorrelationId("fetch", now, issued + i),
                              IF i = 1 THEN stack ELSE TRUE, IF i = 1 THEN k ELSE 0)),
             Append(cids, generateCorrelationId("fetch", now, issued + i)), stack, k)

FetchCall(e) ==
    /\ runtime = "browser" /\ windowFetch # OriginalFetch
    /\ fx[e].st = "idle" /\ (scope \in {"wide", "stacked"} => e = 1)
    /\ \A d \in Exchanges : d < e => fx[d].st # "idle"
    /\ \E stack \in BOOLEAN, k \in FaultChoices :
       \E called \in {CallThrough(Layers(windowFetch), 1, NoRun, <<>>, stack, k)} :
          LET run == called.run
              correlationId == called.cids[1]
          IN  /\ k <= run.n
              /\ console' = Written(run, e)
              /\ fx' = [fx EXCEPT ![e] =
                    IF run.thrown
                    THEN [@ EXCEPT !.st = "rejected", !.cid = correlationId,
                                   !.stack = stack, !.result = SinkError, !.start = now]
                    ELSE [@ EXCEPT !.st = "pending", !.cid = correlationId,
                                   !.inner = Tail(called.cids),
                                   !.originalCalls = @ + 1,
                                   !.via = windowFetch,
                                   !.stack = stack, !.under = Pending, !.start = now]]
              /\ issued' = issued + Len(called.cids)
    /\ UNCHANGED <<runtime, scope, now, sinkFaults, windowFetch, codeVars, serverVars>>

(***************************************************************************)
(* The original fetch settles and the handler resumes: on a response, the  *)
(* response event, the start of the content logging and the function-name  *)
(* event, all inside the try; on anything thrown there or by the original  *)
(* fetch, logFetchError and `throw err`.                                   *)
(***************************************************************************)
ApplyResponseRun(mergedConfig, cid, stack, response, k) ==
    LET r1 == IF mergedConfig.logRequestResponse
              THEN Say(NoRun, FetchResponseLog(cid, response), k) ELSE NoRun
        r2 == IF mergedConfig.logRequestResponse /\ mergedConfig.logResponseContent
                 /\ ~r1.thrown
              THEN StartResponseContent(r1, cid, response, k) ELSE r1
    IN  IF mergedConfig.logFunctionName /\ stack
        THEN Say(r2, FetchFunctionNameLog(cid, stack), k) ELSE r2

\* logResponseContent is left waiting for the body of the clone
ContentAwaited(mergedConfig, cid, response, k) ==
    /\ mergedConfig.logRequestResponse /\ mergedConfig.logResponseContent
    /\ ~Say(NoRun, FetchResponseLog(cid, response), k).thrown
    /\ response.contentType # "other"

\* the catch block: [run, value the wrapped fetch rejects with]
ApplyCatch(run, cid, err, stack, k) ==
    LET r == logFetchError([run EXCEPT !.thrown = FALSE], cid, err, stack, k)
    IN  [run |-> r,
         value |-> IF ~r.thrown THEN err
                   ELSE IF err = Null THEN NullReferenceError ELSE SinkError]

\* the response object whose body logResponseContent reads: the original
\* itself
ContentSourceOriginal(response) == "original"

\* the response object whose body logResponseContent reads: response.clone()
ContentSource(response) == "clone"

\* logResponseContent was entered (it runs up to its first await before the
\* handler returns the response)
ContentEntered(mergedConfig, cid, response, k) ==
    /\ mergedConfig.logRequestResponse /\ mergedConfig.logResponseContent
    /\ ~Say(NoRun, FetchResponseLog(cid, response), k).thrown

\* the clone after the synchronous part of logResponseContent: json() or
\* text() was called on it, or nothing reads it (the last branch)
CloneAfterEntry(response) ==
    IF ContentSource(response) # "clone" THEN "none"
    ELSE IF response.contentType = "other" THEN "unread" ELSE "reading"

\* the handler assigns nothing to window.fetch: the proxy stays installed
WindowFetchReverted(hook) == OriginalFetch

WindowFetchAfterExchange(hook) == hook

\* one handler from the settling of its `await target.apply(...)` with
\* outcome: [run, value it settles with, thrown]
LayerSettle(mergedConfig, cid, stack, outcome, k) ==
    LET tried == IF outcome.tag = "response"
                 THEN ApplyResponseRun(mergedConfig, cid, stack, outcome, k)
                 ELSE [NoRun EXCEPT !.thrown = TRUE]
        caught == IF tried.thrown
                  THEN ApplyCatch(tried, cid,
                           IF outcome.tag = "response" THEN SinkError ELSE outcome,
                           stack, k)
                  ELSE [run |-> tried, value |-> outcome]
    IN  [run |-> caught.run, value |-> caught.value, thrown |-> tried.thrown]

\* the handlers inside the outermost one resume from the innermost outwards,
\* each settling the await of the one around it: [out, value]
Passed(acc, settled) ==
    [out |-> acc.out \o settled.run.out, value |-> settled.value]

RECURSIVE InnerSettle(_, _, _, _)
InnerSettle(configs, cids, i, acc) ==
    IF i < 2 THEN acc
    ELSE InnerSettle(configs, cids, i - 1,
             Passed(acc, LayerSettle(configs[i], cids[i - 1], TRUE, acc.value, 0)))

FetchSettle(e) ==
    /\ runtime = "browser"
    /\ fx[e].st = "pending" /\ fx[e].under = Pending
    /\ \E outcome \in Responses \cup Rejections, k \in FaultChoices :
       \E within \in {InnerSettle(Layers(fx[e].via), fx[e].inner,
                                  Len(Layers(fx[e].via)),
                                  [out |-> <<>>, value |-> outcome])} :
       \E settled \in {LayerSettle(fx[e].via.mergedConfig, fx[e].cid, fx[e].stack,
                                   within.value, k)} :
          LET x == fx[e]
              mergedConfig == x.via.mergedConfig
              seen == within.value
              run == [settled.run EXCEPT !.out = within.out \o @]
              reading == seen.tag = "response"
                            /\ ContentAwaited(mergedConfig, x.cid, seen, k)
              entered == seen.tag = "response"
                            /\ ContentEntered(mergedConfig, x.cid, seen, k)
          IN  /\ k <= settled.run.n
              /\ console' = Written(run, e)
              /\ fx' = [fx EXCEPT ![e] =
                    [@ EXCEPT !.under = outcome,
                              !.st = IF settled.thrown THEN "rejected" ELSE "resolved",
                              !.result = settled.value,
                              !.content = IF reading THEN "reading" ELSE "none",
                              !.clone = IF entered THEN CloneAfterEntry(seen)
                                        ELSE "none",
                              !.bodyUsed = reading /\ ContentSource(seen) = "original"]]
    /\ windowFetch' = WindowFetchAfterExchange(windowFetch)
    /\ UNCHANGED <<runtime, scope, now, issued, sinkFaults, codeVars, serverVars>>

(***************************************************************************)
(* logResponseContent after its await: the body read from the clone is     *)
(* logged; a body that cannot be read or parsed is caught and logged as a  *)
(* content error.                                                          *)
(***************************************************************************)
ResponseContentRun(cid, response, readable, k) ==
    LET tried == IF readable
                 THEN Say(NoRun, FetchContentLog(cid, response, response.contentType), k)
                 ELSE [NoRun EXCEPT !.thrown = TRUE]
    IN  Caught(tried, FetchContentErrorLog(cid), k)

FetchContentDone(e) ==
    /\ runtime = "browser"
    /\ fx[e].content = "reading"
    /\ \E readable \in BOOLEAN, k \in FaultChoices :
          LET run == ResponseContentRun(fx[e].cid, fx[e].under, readable, k)
          IN  /\ k <= run.n
              /\ console' = Written(run, e)
              /\ fx' = [fx EXCEPT ![e].content = IF readable THEN "done"
                                                ELSE "unreadable",
                                   ![e].clone = IF @ = "reading" THEN "read" ELSE @]
    /\ UNCHANGED <<runtime, scope, now, issued, sinkFaults, windowFetch, codeVars, serverVars>>

NextFetch ==
    \/ createFetchProxy
    \/ \E e \in Exchanges : FetchCall(e)
    \/ \E e \in Exchanges : FetchSettle(e)
    \/ \E e \in Exchanges : FetchContentDone(e)

SpecFetch == InitBrowser /\ [][NextFetch]_vars

(***************************************************************************)
(* The caller of fetch reads the body of the response the proxy resolved   *)
(* with (response.json(), response.text()): a body already used rejects    *)
(* with a TypeError, an unused one is read and becomes used.               *)
(***************************************************************************)
CallerReads(e) ==
    /\ runtime = "browser"
    /\ fx[e].st = "resolved" /\ fx[e].result.tag = "response"
    /\ Len(fx[e].reads) < MaxCallerReads
    /\ fx' = [fx EXCEPT ![e].reads = Append(@, IF fx[e].bodyUsed THEN "TypeError"
                                                ELSE "ok"),
                         ![e].bodyUsed = TRUE]
    /\ UNCHANGED <<windowFetch, codeVars, sharedVars, serverVars>>

NextReads ==
    \/ NextFetch
    \/ \E e \in Exchanges : CallerReads(e)

SpecReads == InitBrowser /\ [][NextReads]_vars

(***************************************************************************)
(* createFetchProxy called again and again: each proxy is made around what *)
(* window.fetch is at that moment.                                         *)
(***************************************************************************)
InitStacked ==
    /\ runtime = "browser" /\ scope = "stacked" /\ sinkFaults = FALSE
    /\ payload = NoPayload
    /\ text = <<>> /\ segs = NoSegs /\ edits = 0 /\ ret = Idle
    /\ now = 0 /\ issued = 0 /\ console = <<>>
    /\ windowFetch = OriginalFetch /\ fx = [e \in Exchanges |-> IdleFetch]
    /\ expressCfg = NoMiddleware /\ sx = [e \in Exchanges |-> IdleRequest]

NextStacked ==
    \/ createFetchProxy
    \/ \E e \in Exchanges : FetchCall(e)
    \/ \E e \in Exchanges : FetchSettle(e)

SpecStacked == InitStacked /\ [][NextStacked]_vars

(***************************************************************************)
(* ServerLogger: the config, the request, the bodies.  A path is the       *)
(* sequence of its characters; a body is undefined, a string or an object  *)
(* (the sequence of its key/value fields).                                 *)
(***************************************************************************)
PathHealth == <<"/", "h", "e", "a", "l", "t", "h">>

PathMetrics == <<"/", "m", "e", "t", "r", "i", "c", "s">>

PathFavicon == <<"/", "f", "a", "v", "i", "c", "o", "n", ".", "i", "c", "o">>

PathUsers == <<"/", "u">>

PathUsersHealth == PathUsers \o PathHealth

PathMe == <<"/", "m", "e">>

PathUsersMe == PathUsers \o PathMe

Paths ==
    IF scope \in {"bodies", "capture", "overlap"} THEN {PathUsers}
    ELSE {PathUsers, PathUsersHealth}
            \cup (IF scope = "wide" THEN {PathHealth, PathUsersMe} ELSE {})

ServerDefaultConfig ==
    [logRequestBody |-> FALSE, logResponseBody |-> FALSE, logHeaders |-> FALSE,
     excludePaths |-> {PathHealth, PathMetrics, PathFavicon},
     excludeRequestBody |-> {}, excludeResponseBody |-> {},
     customIDHeader |-> "X-Correlation-ID"]

\* the configs passed to createExpressLogger; with the wide inputs also
\* excludeRequestBody: ['/me'] and excludeResponseBody: ['/me']
ServerConfigs ==
    IF scope = "wide"
    THEN [logRequestBody : BOOLEAN, logResponseBody : BOOLEAN,
          excludeRequestBody : {{}, {PathMe}}, excludeResponseBody : {{}, {PathMe}}]
    ELSE IF scope = "overlap"
    THEN [logRequestBody : {FALSE}, logResponseBody : {TRUE}]
    ELSE [logRequestBody : BOOLEAN, logResponseBody : BOOLEAN]

\* String.prototype.includes
Includes(s, sub) ==
    \E i \in 0..(Len(s) - Len(sub)) : SubSeq(s, i + 1, i + Len(sub)) = sub

UndefinedBody == [tag |-> "undefined"]

StringBody(s) == [tag |-> "string", value |-> s]

ObjectBody(fields) == [tag |-> "object", fields |-> fields]

UpperLetters ==
    <<"A", "B", "C", "D", "E", "F", "G", "H", "I", "J", "K", "L", "M",
      "N", "O", "P", "Q", "R", "S", "T", "U", "V", "W", "X", "Y", "Z">>

LowerLetters ==
    <<"a", "b", "c", "d", "e", "f", "g", "h", "i", "j", "k", "l", "m",
      "n", "o", "p", "q", "r", "s", "t", "u", "v", "w", "x", "y", "z">>

Lower(c) ==
    IF \E i \in 1..Len(UpperLetters) : UpperLetters[i] = c
    THEN LowerLetters[CHOOSE i \in 1..Len(UpperLetters) : UpperLetters[i] = c]
    ELSE c

LowerCase(s) == [i \in 1..Len(s) |-> Lower(s[i])]

\* the patterns of sensitiveKeys that need no wildcard: /pass(word)?/i,
\* /secret/i, /token/i, /auth/i, /key/i, /credential/i, /ssn/i, /card/i, /cvv/i
SensitiveWords ==
    {<<"p", "a", "s", "s">>, <<"s", "e", "c", "r", "e", "t">>,
     <<"t", "o", "k", "e", "n">>, <<"a", "u", "t", "h">>, <<"k", "e", "y">>,
     <<"c", "r", "e", "d", "e", "n", "t", "i", "a", "l">>, <<"s", "s", "n">>,
     <<"c", "a", "r", "d">>, <<"c", "v", "v">>}

WordSocial == <<"s", "o", "c", "i", "a", "l">>

WordSecurity == <<"s", "e", "c", "u", "r", "i", "t", "y">>

\* /social.*security/i
SocialSecurity(s) ==
    \E i \in 1..Len(s) :
        /\ Includes(SubSeq(s, 1, i), WordSocial)
        /\ Includes(SubSeq(s, i + 1, Len(s)), WordSecurity)

\* pattern.test(key) without the i flag
IsSensitiveKeyCaseSensitive(key) ==
    \/ \E w \in SensitiveWords : Includes(key, w)
    \/ SocialSecurity(key)

IsSensitiveKey(key) ==
    \/ \E w \in SensitiveWords : Includes(LowerCase(key), w)
    \/ SocialSecurity(LowerCase(key))

Redacted == StringBody("[REDACTED]")

NumberBody(n) == [tag |-> "number", num |-> n]

BooleanBody(b) == [tag |-> "boolean", bool |-> b]

\* an array is an object whose own keys are its indices '0', '1', ...
ArrayBody(items) ==
    [tag |-> "array",
     fields |-> [i \in 1..Len(items) |-> [key |-> <<ToString(i - 1)>>, value |-> items[i]]]]

\* !data is false
TruthyValue(data) ==
    data \notin {UndefinedBody, Null, StringBody(""), NumberBody(0), BooleanBody(FALSE)}

\* typeof data === 'object', data not null
IsStructured(data) == data.tag \in {"object", "array"}

\* the old value kept inside the marker
RedactionWrapping(value) == ArrayBody(<<value>>)

\* sanitized[key] = '[REDACTED]'
RedactionOf(value) == Redacted

RECURSIVE sanitizeBody(_)
sanitizeBody(data) ==
    IF ~TruthyValue(data) THEN data
    ELSE IF ~IsStructured(data) THEN data
    ELSE [tag |-> data.tag,
          fields |-> [i \in 1..Len(data.fields) |->
            IF IsSensitiveKey(data.fields[i].key)
            THEN [key |-> data.fields[i].key,
                  value |-> RedactionOf(data.fields[i].value)]
            ELSE IF IsStructured(data.fields[i].value)
            THEN [key |-> data.fields[i].key,
                  value |-> sanitizeBody(data.fields[i].value)]
            ELSE data.fields[i]]]

KeyPassword == <<"P", "a", "s", "s">>

KeyName == <<"n">>

\* two secrets a client or a handler may put under the key 'Pass'
SecretV == StringBody("s3cr3t-v")

SecretW == StringBody("s3cr3t-w")

SecretBody(secret) ==
    ObjectBody(<<[key |-> KeyPassword, value |-> secret],
                 [key |-> KeyName, value |-> StringBody("v")]>>)

RequestBodies ==
    IF scope = "bodies" THEN {UndefinedBody, SecretBody(SecretV), SecretBody(SecretW)}
    ELSE IF scope \in {"capture", "overlap"} THEN {UndefinedBody}
    ELSE {UndefinedBody,
          ObjectBody(<<[key |-> KeyPassword, value |-> StringBody("v")],
                       [key |-> KeyName, value |-> StringBody("v")]>>)}

EmptyHeader == [tag |-> "inbound", value |-> ""]

InboundIds ==
    {NoCid, [tag |-> "inbound", value |-> "abc"]}
        \cup (IF scope = "wide" THEN {EmptyHeader} ELSE {})

\* a client may send back an id it read from the header of an earlier response
EchoedIds ==
    {sx[d].header : d \in {d \in Exchanges : sx[d].cid.tag = "generated"}}

\* what a handler can pass to res.write and res.end as its first argument;
\* a string chunk is the sequence of its characters
NoChunk == [tag |-> "undefined"]

StringChunk(chars) == [tag |-> "string", value |-> chars]

EmptyChunk == StringChunk(<<>>)

JsonChunk == StringChunk(<<"{", "}">>)

TextChunk == StringChunk(<<"x">>)

CallbackChunk == [tag |-> "function"]

\* '{"Pass":"s3cr3t-v","n":"v"}' and the same with the other secret
JsonTextV ==
    <<"{", "\"", "P", "a", "s", "s", "\"", ":", "\"", "s", "3", "c", "r",
      "3", "t", "-", "v", "\"", ",", "\"", "n", "\"", ":", "\"", "v", "\"",
      "}">>

JsonTextW ==
    <<"{", "\"", "P", "a", "s", "s", "\"", ":", "\"", "s", "3", "c", "r",
      "3", "t", "-", "w", "\"", ",", "\"", "n", "\"", ":", "\"", "v", "\"",
      "}">>

JsonChunkV == StringChunk(JsonTextV)

JsonChunkW == StringChunk(JsonTextW)

ChunkA == StringChunk(<<"a">>)

ChunkB == StringChunk(<<"b">>)

ChunkC == StringChunk(<<"c">>)

WriteChunks ==
    IF scope = "capture" THEN {ChunkA, ChunkB, EmptyChunk}
    ELSE IF scope = "overlap" THEN {ChunkA, ChunkB}
    ELSE {TextChunk}

EndChunks ==
    IF scope = "bodies" THEN {NoChunk, JsonChunkV, JsonChunkW}
    ELSE IF scope = "capture" THEN {NoChunk, ChunkC, CallbackChunk}
    ELSE IF scope = "overlap" THEN {NoChunk, ChunkC}
    ELSE {NoChunk, JsonChunk, CallbackChunk}

\* the arguments after the chunk: none, or an encoding
ExtraArgs == IF scope = "capture" THEN {<<>>, <<"utf8">>} ELSE {<<>>}

\* what the original res.write returns (false asks the caller to wait for
\* 'drain'); the original res.end returns the response
WriteResults == IF scope = "capture" THEN BOOLEAN ELSE {TRUE}

EndResult == "res"

WriteLimit == IF scope = "capture" THEN MaxCapturedWrites ELSE MaxWrites

Truthy(chunk) == chunk \notin {NoChunk, EmptyChunk}

StatusCodes ==
    IF scope = "wide" THEN {200, 399, 400, 499, 500}
    ELSE IF scope \in {"bodies", "capture", "overlap"} THEN {200}
    ELSE {200, 500}

ContentTypes == IF scope = "overlap" THEN {"text"} ELSE {"json", "text", "other"}

BufferError == [tag |-> "error", name |-> "TypeError: Buffer.from"]

ServerCode(category, action, outcome, severity) ==
    generateLogCode(ENV.BE, SERVICE.API, category, action, outcome, severity)

\* logData.body = body
ServerRequestLogRaw(correlationId, req, config) ==
    createLogData(
        ServerCode(CATEGORY.REQUEST, ACTION_CODES.RECEIVE, OUTCOME.SUCCESS, SEVERITY.INFO),
        "request", correlationId,
        [url |-> req.path,
         body |-> IF config.logRequestBody THEN req.body ELSE UndefinedBody], now)

ServerRequestLog(correlationId, req, config) ==
    LET withBody == /\ config.logRequestBody
                    /\ ~\E path \in config.excludeRequestBody : Includes(req.path, path)
                    /\ req.body # UndefinedBody
    IN  createLogData(
            ServerCode(CATEGORY.REQUEST, ACTION_CODES.RECEIVE, OUTCOME.SUCCESS, SEVERITY.INFO),
            "request", correlationId,
            [url |-> req.path,
             body |-> IF withBody THEN sanitizeBody(req.body) ELSE UndefinedBody], now)

\* a response event under an id of its own
ServerResponseLogOwnId(correlationId, req, statusCode, duration, responseBody) ==
    createLogData(
        ServerCode(CATEGORY.RESPONSE, ACTION_CODES.SEND, OUTCOME.SUCCESS, SEVERITY.INFO),
        "response", generateCorrelationId("express", now, 0),
        [url |-> req.path, status |-> statusCode, duration |-> duration,
         body |-> sanitizeBody(responseBody)], now)

\* the thresholds taken as strict bounds
ServerResponseLogStrict(correlationId, req, statusCode, duration, responseBody) ==
    LET severity == IF statusCode > 500 THEN SEVERITY.ERROR
                    ELSE IF statusCode > 400 THEN SEVERITY.WARN
                    ELSE SEVERITY.INFO
        outcome == IF statusCode > 400 THEN OUTCOME.FAILURE ELSE OUTCOME.SUCCESS
    IN  createLogData(
            ServerCode(CATEGORY.RESPONSE, ACTION_CODES.SEND, outcome, severity),
            "response", correlationId,
            [url |-> req.path, status |-> statusCode, duration |-> duration,
             body |-> sanitizeBody(responseBody)], now)

ServerResponseLog(correlationId, req, statusCode, duration, responseBody) ==
    LET severity == IF statusCode >= 500 THEN SEVERITY.ERROR
                    ELSE IF statusCode >= 400 THEN SEVERITY.WARN
                    ELSE SEVERITY.INFO
        outcome == IF statusCode >= 400 THEN OUTCOME.FAILURE ELSE OUTCOME.SUCCESS
    IN  createLogData(
            ServerCode(CATEGORY.RESPONSE, ACTION_CODES.SEND, outcome, severity),
            "response", correlationId,
            [url |-> req.path, status |-> statusCode, duration |-> duration,
             body |-> sanitizeBody(responseBody)], now)

\* Buffer.concat(chunks), as the characters the bytes encode
RECURSIVE ConcatChunks(_)
ConcatChunks(chunks) ==
    IF chunks = <<>> THEN <<>> ELSE Head(chunks).value \o ConcatChunks(Tail(chunks))

\* JSON.parse on the texts the handlers of the model send
JsonParse(chars) ==
    CASE chars = JsonChunk.value -> ObjectBody(<<>>)
      [] chars = JsonTextV -> SecretBody(SecretV)
      [] chars = JsonTextW -> SecretBody(SecretW)
      [] OTHER -> [tag |-> "thrown", name |-> "SyntaxError"]

\* characters that take more than one byte in UTF-8 and one UTF-16 unit:
\* U+00E9 (two bytes) and U+20AC (three bytes)
EAcute == "e-acute"

Euro == "euro"

Utf8Width(c) == IF c = EAcute THEN 2 ELSE IF c = Euro THEN 3 ELSE 1

\* buffer.length: the bytes of the UTF-8 encoding
ByteLength(chars) ==
    LET Of(width) == Len(SelectSeq(chars, LAMBDA c : Utf8Width(c) = width))
    IN  Of(1) + 2 * Of(2) + 3 * Of(3)

\* String.prototype.substring(0, end)
Substring(chars, end) ==
    SubSeq(chars, 1, IF end < Len(chars) THEN end ELSE Len(chars))

TextCap == 1000

TruncationMarker ==
    <<".", ".", ".", " ", "(", "t", "r", "u", "n", "c", "a", "t", "e", "d", ")">>

\* FetchLogger: textData.substring(0, 1000) + (textData.length > 1000 ? '... (truncated)' : '')
EgressText(textData) ==
    Substring(textData, TextCap)
        \o (IF Len(textData) > TextCap THEN TruncationMarker ELSE <<>>)

\* ServerLogger: buffer.toString('utf8').substring(0, 1000) +
\* (buffer.length > 1000 ? '... (truncated)' : '')
IngressText(chars) ==
    Substring(chars, TextCap)
        \o (IF ByteLength(chars) > TextCap THEN TruncationMarker ELSE <<>>)

TextBody(chars) == [tag |-> "text", value |-> chars]

\* JSON.parse outside the try
ParsedJsonUncaught(chunks) == JsonParse(ConcatChunks(chunks))

\* the body the end wrapper extracts from the chunks it captured
ParsedJson(chunks) ==
    LET parsed == JsonParse(ConcatChunks(chunks))
    IN  IF parsed.tag = "thrown" THEN StringBody("Error parsing response body")
        ELSE parsed

\* the extraction without the test of excludeResponseBody
ResponseBodyOfUngated(config, req, chunks, contentType) ==
    IF config.logResponseBody
    THEN CASE contentType = "json" -> ParsedJson(chunks)
           [] contentType = "text" -> TextBody(IngressText(ConcatChunks(chunks)))
           [] OTHER -> StringBody("Binary data or unsupported content type")
    ELSE UndefinedBody

ResponseBodyOf(config, req, chunks, contentType) ==
    IF config.logResponseBody
          /\ ~\E path \in config.excludeResponseBody : Includes(req.path, path)
    THEN CASE contentType = "json" -> ParsedJson(chunks)
           [] contentType = "text" -> TextBody(IngressText(ConcatChunks(chunks)))
           [] OTHER -> StringBody("Binary data or unsupported content type")
    ELSE UndefinedBody

(***************************************************************************)
(* createExpressLogger: the middleware is built from the merged config.    *)
(***************************************************************************)
InitNode == runtime = "node" /\ sinkFaults = FALSE /\ Untouched

createExpressLogger ==
    /\ runtime = "node" /\ expressCfg = NoMiddleware
    /\ \E config \in ServerConfigs :
          expressCfg' = [tag |-> "middleware", mergedConfig |-> config @@ ServerDefaultConfig]
    /\ UNCHANGED <<sx, codeVars, sharedVars, fetchVars>>

(***************************************************************************)
(* The middleware, from its entry to its call of next(): the correlation   *)
(* id, the response header, the excluded paths, the request event, the     *)
(* wrappers put on res.write and res.end.                                  *)
(***************************************************************************)
IsExcludedExactly(config, req) == req.path \in config.excludePaths

IsExcluded(config, req) ==
    \E path \in config.excludePaths : Includes(req.path, path)

\* req.headers[...] || generateCorrelationId('express'): an absent header
\* and an empty one are both falsy
AlwaysGenerated(inbound, generated) == generated

HeaderOrGenerated(inbound, generated) ==
    IF inbound \in {NoCid, EmptyHeader} THEN generated ELSE inbound

OnlyExchange(e) == scope \in {"wide", "capture"} => e = 1

\* what the exchange was given, kept for the properties while bodies are
\* compared (not part of the program)
Given(x, input) ==
    IF scope \in {"bodies", "wide"} THEN Append(x.given, input) ELSE x.given

Middleware(e) ==
    /\ runtime = "node" /\ expressCfg # NoMiddleware
    /\ sx[e].st = "idle" /\ OnlyExchange(e)
    /\ \A d \in Exchanges : d < e => sx[d].st # "idle"
    /\ \E path \in Paths, inbound \in InboundIds \cup EchoedIds,
          body \in RequestBodies, k \in FaultChoices :
          LET mergedConfig == expressCfg.mergedConfig
              req == [path |-> path, body |-> body]
              correlationId ==
                  HeaderOrGenerated(inbound,
                      generateCorrelationId("express", now, issued + 1))
              run == IF IsExcluded(mergedConfig, req) THEN NoRun
                     ELSE Say(NoRun, ServerRequestLog(correlationId, req, mergedConfig), k)
              entered == [sx[e] EXCEPT !.cid = correlationId, !.req = [path |-> path],
                                       !.inbound = inbound, !.stored = correlationId,
                                       !.header = correlationId, !.start = now,
                                       !.given = Given(sx[e], [body |-> body])]
          IN  /\ k <= run.n
              /\ issued' = IF correlationId = inbound THEN issued ELSE issued + 1
              /\ console' = Written(run, e)
              /\ sx' = [sx EXCEPT ![e] =
                    IF IsExcluded(mergedConfig, req)
                    THEN [entered EXCEPT !.st = "open", !.nextCalls = 1]
                    ELSE IF run.thrown
                    THEN [entered EXCEPT !.st = "failed", !.threw = <<SinkError>>]
                    ELSE [entered EXCEPT
                            !.st = "open", !.wrapped = TRUE, !.nextCalls = 1,
                            !.end = "wrapper",
                            !.write = IF mergedConfig.logResponseBody
                                      THEN "wrapper" ELSE "originalWrite"]]
    /\ UNCHANGED <<runtime, scope, now, sinkFaults, expressCfg, codeVars, fetchVars>>

(***************************************************************************)
(* A handler downstream calls res.write(chunk): the wrapper, when there is *)
(* one, keeps a copy of the chunk and forwards the call.                   *)
(***************************************************************************)
Writes(x) == Len(SelectSeq(x.sent, LAMBDA c : c.via = "write"))

ResWrite(e) ==
    /\ runtime = "node"
    /\ sx[e].st = "open" /\ Writes(sx[e]) < WriteLimit
    /\ \E chunk \in WriteChunks, args \in ExtraArgs, result \in WriteResults :
          sx' = [sx EXCEPT ![e] =
                [@ EXCEPT !.chunks = IF sx[e].write = "wrapper" /\ Truthy(chunk)
                                     THEN Append(@, chunk) ELSE @,
                          !.sent = Append(@, [via |-> "write", chunk |-> chunk,
                                              args |-> args, result |-> result]),
                          !.calls = Append(@, [via |-> "write", through |-> sx[e].write,
                                               chunk |-> chunk, args |-> args,
                                               returned |-> result])]]
    /\ UNCHANGED <<expressCfg, codeVars, sharedVars, fetchVars>>

(***************************************************************************)
(* A handler calls res.end(chunk).  The wrapper restores both methods,     *)
(* captures the last chunk, runs the original end, extracts the body and   *)
(* emits the response event.                                               *)
(***************************************************************************)
RestoreNothing(x) == x

Restore(x) ==
    [x EXCEPT !.write = "originalWrite", !.end = "originalEnd",
              !.restores = @ + 1]

\* Date.now() - startTime with one startTime for all requests, set by the
\* request that entered last
DurationSinceLatest(x) ==
    LET entered == {d \in Exchanges : sx[d].st # "idle"}
        latest == CHOOSE d \in entered : \A c \in entered : c <= d
    IN  now - sx[latest].start

\* const duration = Date.now() - startTime
DurationSince(x) == now - x.start

EndWrapper(x, config, chunk, args, statusCode, contentType, k) ==
    LET restored == Restore(x)
        captures == config.logResponseBody /\ Truthy(chunk)
        call == [via |-> "end", through |-> "wrapper", chunk |-> chunk, args |-> args]
    IN  IF captures /\ chunk = CallbackChunk
        THEN [x |-> [restored EXCEPT
                        !.threw = Append(@, BufferError),
                        !.calls = Append(@, call @@ [returned |-> BufferError])],
              run |-> NoRun]
        ELSE LET chunks == IF captures THEN Append(x.chunks, chunk) ELSE x.chunks
                 responseBody == ResponseBodyOf(config, x.req, chunks, contentType)
                 run == Say(NoRun, ServerResponseLog(x.cid, x.req, statusCode,
                                                     DurationSince(x), responseBody), k)
             IN  [x |-> [restored EXCEPT
                           !.chunks = chunks,
                           !.sent = Append(@, [via |-> "end", chunk |-> chunk,
                                               args |-> args, result |-> EndResult]),
                           !.st = "ended",
                           !.threw = IF run.thrown THEN Append(@, SinkError) ELSE @,
                           !.calls = Append(@, call @@
                                [returned |-> IF run.thrown THEN SinkError
                                              ELSE EndResult])],
                  run |-> run]

ResEnd(e) ==
    /\ runtime = "node"
    /\ sx[e].st \in {"open", "ended"} /\ sx[e].endCalls < MaxEndCalls
    /\ \E chunk \in EndChunks, args \in ExtraArgs, statusCode \in StatusCodes,
          contentType \in ContentTypes, k \in FaultChoices :
          LET x == [sx[e] EXCEPT
                        !.endCalls = @ + 1,
                        !.given = Given(sx[e], [statusCode |-> statusCode,
                                                contentType |-> contentType])]
              after == IF x.end = "wrapper"
                       THEN EndWrapper(x, expressCfg.mergedConfig, chunk, args,
                                       statusCode, contentType, k)
                       ELSE [x |-> [x EXCEPT !.st = "ended",
                                       !.sent = Append(@, [via |-> "end", chunk |-> chunk,
                                                           args |-> args,
                                                           result |-> EndResult]),
                                       !.calls = Append(@,
                                            [via |-> "end", through |-> "originalEnd",
                                             chunk |-> chunk, args |-> args,
                                             returned |-> EndResult])],
                             run |-> NoRun]
          IN  /\ k <= after.run.n
              /\ x.end # "wrapper" =>
                    (chunk = NoChunk /\ statusCode = 200 /\ contentType = "other")
              /\ ~expressCfg.mergedConfig.logResponseBody => contentType = "other"
              /\ console' = Written(after.run, e)
              /\ sx' = [sx EXCEPT ![e] = after.x]
    /\ UNCHANGED <<runtime, scope, now, issued, sinkFaults, expressCfg, codeVars, fetchVars>>

NextServer ==
    \/ createExpressLogger
    \/ \E e \in Exchanges : Middleware(e)
    \/ \E e \in Exchanges : ResWrite(e)
    \/ \E e \in Exchanges : ResEnd(e)

SpecServer == InitNode /\ [][NextServer]_vars

(***************************************************************************)
(* expressErrorLogger: Express hands it what a handler threw or passed to  *)
(* next (never a falsy value: next(null) is no error).  It may run for a   *)
(* request the logger middleware never saw (req.correlationId unset) or    *)
(* for one it let through.  One error event, then next(err).               *)
(***************************************************************************)
HandlerError == [tag |-> "error", name |-> "Error: boom"]

\* throw 'boom': a value without message or stack
ThrownString == [tag |-> "string", value |-> "boom"]

ServerErrors == {HandlerError, ThrownString}

\* err.message
MessageOf(err) == IF err.tag = "error" THEN err.name ELSE Undefined

ServerErrorLog(correlationId, req, err) ==
    createLogData(
        ServerCode(CATEGORY.REQUEST, ACTION_CODES.ERROR, OUTCOME.FAILURE, SEVERITY.ERROR),
        "error", correlationId,
        [url |-> req.path, error |-> MessageOf(err)], now)

\* generateCorrelationId('express-error'), whatever the request carries
ErrorIdGenerated(existing, generated) == generated

\* req.correlationId || generateCorrelationId('express-error')
ExistingOrGenerated(existing, generated) ==
    IF existing \in {NoCid, EmptyHeader} THEN generated ELSE existing

expressErrorLogger(e) ==
    /\ runtime = "node"
    /\ sx[e].st \in {"idle", "open"} /\ sx[e].errSeen = <<>> /\ OnlyExchange(e)
    /\ \A d \in Exchanges : d < e => sx[d].st # "idle"
    /\ \E err \in ServerErrors, path \in Paths, k \in FaultChoices :
          LET x == sx[e]
              req == IF x.st = "idle" THEN [path |-> path] ELSE x.req
              correlationId ==
                  ExistingOrGenerated(x.stored,
                      generateCorrelationId("express-error", now, issued + 1))
              run == Say(NoRun, ServerErrorLog(correlationId, req, err), k)
          IN  /\ k <= run.n
              /\ x.st = "open" => path = x.req.path
              /\ issued' = IF correlationId = x.stored THEN issued ELSE issued + 1
              /\ console' = Written(run, e)
              /\ sx' = [sx EXCEPT ![e] =
                    [@ EXCEPT !.st = IF x.st = "idle" THEN "errored" ELSE @,
                              !.req = req,
                              !.errSeen = <<err>>,
                              !.errNext = IF run.thrown THEN <<>> ELSE <<err>>,
                              !.threw = IF run.thrown THEN Append(@, SinkError) ELSE @]]
    /\ UNCHANGED <<runtime, scope, now, sinkFaults, expressCfg, codeVars, fetchVars>>

NextErrors ==
    \/ NextServer
    \/ \E e \in Exchanges : expressErrorLogger(e)

(***************************************************************************)
(* Both pipelines, each in its own runtime; with sinkFaults, any one call  *)
(* of logToConsole in a step may throw.                                    *)
(***************************************************************************)
InitPipeline ==
    /\ runtime \in {"browser", "node"} /\ sinkFaults = FALSE /\ Untouched

InitFaulty ==
    /\ runtime \in {"browser", "node"} /\ sinkFaults = TRUE /\ Untouched

NextPipeline == NextFetch \/ NextServer

SpecPipeline == InitPipeline /\ [][NextPipeline]_vars

SpecFaulty == InitFaulty /\ [][NextPipeline]_vars

(***************************************************************************)
(* One exchange at a time, its inputs drawn from the wide sets.            *)
(***************************************************************************)
InitWide ==
    /\ runtime \in {"browser", "node"} /\ scope = "wide" /\ sinkFaults = FALSE
    /\ payload = NoPayload
    /\ text = <<>> /\ segs = NoSegs /\ edits = 0 /\ ret = Idle
    /\ now = 0 /\ issued = 0 /\ console = <<>>
    /\ windowFetch = OriginalFetch /\ fx = [e \in Exchanges |-> IdleFetch]
    /\ expressCfg = NoMiddleware /\ sx = [e \in Exchanges |-> IdleRequest]

SpecWide == InitWide /\ [][NextPipeline]_vars

\* one request at a time with the wide inputs, and the error handler
InitErrors == InitWide /\ runtime = "node"

SpecErrors == InitErrors /\ [][NextErrors]_vars

\* one request, two writes of distinct chunks, arguments after the chunk and
\* the results of the original methods
InitCapture ==
    /\ runtime = "node" /\ scope = "capture" /\ sinkFaults = FALSE
    /\ payload = NoPayload
    /\ text = <<>> /\ segs = NoSegs /\ edits = 0 /\ ret = Idle
    /\ now = 0 /\ issued = 0 /\ console = <<>>
    /\ windowFetch = OriginalFetch /\ fx = [e \in Exchanges |-> IdleFetch]
    /\ expressCfg = NoMiddleware /\ sx = [e \in Exchanges |-> IdleRequest]

SpecCapture == InitCapture /\ [][NextServer]_vars

(***************************************************************************)
(* Requests that overlap in time: Date.now() advances between the steps of *)
(* the requests in flight.                                                 *)
(***************************************************************************)
Tick ==
    /\ now < MaxClock
    /\ now' = now + 1
    /\ UNCHANGED <<runtime, scope, issued, console, sinkFaults, codeVars, fetchVars,
                   serverVars>>

InitOverlap ==
    /\ runtime = "node" /\ scope = "overlap" /\ sinkFaults = FALSE
    /\ payload = NoPayload
    /\ text = <<>> /\ segs = NoSegs /\ edits = 0 /\ ret = Idle
    /\ now = 0 /\ issued = 0 /\ console = <<>>
    /\ windowFetch = OriginalFetch /\ fx = [e \in Exchanges |-> IdleFetch]
    /\ expressCfg = NoMiddleware /\ sx = [e \in Exchanges |-> IdleRequest]

NextOverlap == NextServer \/ Tick

SpecOverlap == InitOverlap /\ [][NextOverlap]_vars

(***************************************************************************)
(* Overlapping exchanges whose inputs are remembered: ingress bodies that  *)
(* carry secrets under a sensitive key or fail to parse, egress bodies     *)
(* that cannot be read.                                                    *)
(***************************************************************************)
InitSecrets ==
    /\ runtime \in {"browser", "node"} /\ scope = "bodies" /\ sinkFaults = FALSE
    /\ payload = NoPayload
    /\ text = <<>> /\ segs = NoSegs /\ edits = 0 /\ ret = Idle
    /\ now = 0 /\ issued = 0 /\ console = <<>>
    /\ windowFetch = OriginalFetch /\ fx = [e \in Exchanges |-> IdleFetch]
    /\ expressCfg = NoMiddleware /\ sx = [e \in Exchanges |-> IdleRequest]

SpecSecrets == InitSecrets /\ [][NextPipeline]_vars

(***************************************************************************)
(* sanitizeBody on objects with identity.  A heap is a sequence of cells,  *)
(* the address of a cell is its index; a cell is an object or an array     *)
(* with its own keys in order; a value is a scalar or a reference to a     *)
(* cell.  The spread copies ({ ...data }, [...data]) allocate a cell, the  *)
(* assignments sanitized[key] = ... write into it.                         *)
(***************************************************************************)
Ref(addr) == [tag |-> "ref", addr |-> addr]

IsObjectValue(value) == value.tag = "ref"

\* the body as a tree: every reference replaced by what it points to
RECURSIVE Deref(_, _)
Deref(heap, value) ==
    IF value.tag # "ref" THEN value
    ELSE [tag |-> heap[value.addr].tag,
          fields |-> [i \in 1..Len(heap[value.addr].fields) |->
              [key |-> heap[value.addr].fields[i].key,
               value |-> Deref(heap, heap[value.addr].fields[i].value)]]]

\* a tree built by the caller, innermost objects first
RECURSIVE Store(_, _), StoreFields(_, _, _)
StoreFields(heap, fields, done) ==
    IF Len(done) = Len(fields) THEN [heap |-> heap, fields |-> done]
    ELSE LET field == fields[Len(done) + 1]
             stored == Store(heap, field.value)
         IN  StoreFields(stored.heap, fields,
                         Append(done, [key |-> field.key, value |-> stored.value]))

Store(heap, data) ==
    IF ~IsStructured(data) THEN [heap |-> heap, value |-> data]
    ELSE LET inner == StoreFields(heap, data.fields, <<>>)
         IN  [heap |-> Append(inner.heap, [tag |-> data.tag, fields |-> inner.fields]),
              value |-> Ref(Len(inner.heap) + 1)]

\* const sanitized = data: the writes go to the caller's object
NoClone(heap, addr) == [heap |-> heap, addr |-> addr]

\* const sanitized = Array.isArray(data) ? [...data] : { ...data }
Clone(heap, addr) == [heap |-> Append(heap, heap[addr]), addr |-> Len(heap) + 1]

SetField(heap, addr, i, value) ==
    [heap EXCEPT ![addr] = [@ EXCEPT !.fields = [@ EXCEPT ![i] = [@ EXCEPT !.value = value]]]]

\* sanitizeBody and the forEach over Object.keys(sanitized), from key i on
RECURSIVE sanitizeBodyAt(_, _), forEachKey(_, _, _)
forEachKey(heap, addr, i) ==
    IF i > Len(heap[addr].fields) THEN heap
    ELSE LET field == heap[addr].fields[i]
         IN  IF IsSensitiveKey(field.key)
             THEN forEachKey(SetField(heap, addr, i, RedactionOf(field.value)), addr, i + 1)
             ELSE IF IsObjectValue(field.value)
             THEN LET inner == sanitizeBodyAt(heap, field.value)
                  IN  forEachKey(SetField(inner.heap, addr, i, inner.value), addr, i + 1)
             ELSE forEachKey(heap, addr, i + 1)

sanitizeBodyAt(heap, data) ==
    IF ~TruthyValue(data) THEN [heap |-> heap, value |-> data]
    ELSE IF ~IsObjectValue(data) THEN [heap |-> heap, value |-> data]
    ELSE LET sanitized == Clone(heap, data.addr)
         IN  [heap |-> forEachKey(sanitized.heap, sanitized.addr, 1),
              value |-> Ref(sanitized.addr)]

(***************************************************************************)
(* The bodies handed to sanitizeBody: scalars, objects and arrays up to    *)
(* three levels deep, with sensitive keys in several spellings.            *)
(***************************************************************************)
KeySsn == <<"s", "s", "n">>

KeyMonkey == <<"m", "o", "n", "K", "E", "Y">>

BodyKeys == {KeyPassword, KeyName, KeyMonkey}

Scalars ==
    {StringBody("v"), StringBody(""), NumberBody(0), NumberBody(7),
     BooleanBody(FALSE), Null, UndefinedBody}

InnerScalars == {StringBody("v"), Null}

Field(key, value) == [key |-> key, value |-> value]

Level1 ==
    {ObjectBody(<<>>), ArrayBody(<<>>)}
        \cup {ObjectBody(<<Field(key, value)>>) : key \in BodyKeys, value \in InnerScalars}
        \cup {ArrayBody(<<value>>) : value \in InnerScalars}

Level2 ==
    {ObjectBody(<<Field(KeyName, a), Field(KeySsn, b)>>) :
        a \in InnerScalars \cup Level1, b \in {StringBody("v"), ObjectBody(<<>>)}}
        \cup {ObjectBody(<<Field(key, a)>>) : key \in BodyKeys, a \in Level1}
        \cup {ArrayBody(<<a, b>>) : a \in InnerScalars \cup Level1, b \in {Null, ObjectBody(<<Field(KeyPassword, StringBody("v"))>>)}}

Level3 ==
    {ObjectBody(<<Field(KeyName, a)>>) : a \in Level2}
        \cup {ArrayBody(<<a>>) : a \in Level2}

Bodies == Scalars \cup Level1 \cup Level2 \cup Level3

\* the nesting depth of a body
RECURSIVE Depth(_)
Depth(data) ==
    IF ~IsStructured(data) THEN 0
    ELSE 1 + (IF data.fields = <<>> THEN 0
              ELSE LET depths == {Depth(data.fields[i].value) : i \in 1..Len(data.fields)}
                   IN  CHOOSE d \in depths : \A other \in depths : other <= d)

\* text bodies around the cap, in one-, two- and three-byte characters
TextLengths == {0, 1, TextCap - 1, TextCap, TextCap + 1, TextCap + 500}

Texts ==
    {Repeat(c, n) : c \in {"a", EAcute, Euro}, n \in TextLengths}
        \cup {Repeat("a", TextCap - 500) \o Repeat(EAcute, n) : n \in {300, 500, 501}}

InitBody ==
    /\ runtime = "library" /\ scope = "lean" /\ sinkFaults = FALSE
    /\ payload \in [tag : {"body"}, value : Bodies] \cup [tag : {"text"}, value : Texts]
    /\ text = <<>> /\ segs = NoSegs /\ edits = 0 /\ ret = Idle
    /\ now = 0 /\ issued = 0 /\ console = <<>>
    /\ windowFetch = OriginalFetch /\ fx = [e \in Exchanges |-> IdleFetch]
    /\ expressCfg = NoMiddleware /\ sx = [e \in Exchanges |-> IdleRequest]

\* the caller holds the body as objects and calls sanitizeBody(body)
CallSanitizeBody ==
    /\ payload.tag = "body" /\ ret = Idle
    /\ LET held == Store(<<>>, payload.value)
           result == sanitizeBodyAt(held.heap, held.value)
       IN  ret' = [op |-> "sanitizeBody", calls |-> 1,
                   before |-> held.heap, arg |-> held.value,
                   heap |-> result.heap, value |-> result.value,
                   first |-> result.value]
    /\ UNCHANGED <<text, segs, edits, payload, sharedVars, fetchVars, serverVars>>

\* the caller hands the result to sanitizeBody again
CallSanitizeBodyAgain ==
    /\ ret.op = "sanitizeBody" /\ ret.calls = 1
    /\ LET result == sanitizeBodyAt(ret.heap, ret.value)
       IN  ret' = [ret EXCEPT !.calls = 2, !.before = ret.heap, !.arg = ret.value,
                              !.heap = result.heap, !.value = result.value]
    /\ UNCHANGED <<text, segs, edits, payload, sharedVars, fetchVars, serverVars>>

\* logResponseContent on a text/ response: await clonedResponse.text(), then
\* the substring and the marker
ExtractEgressText ==
    /\ payload.tag = "text" /\ ret = Idle
    /\ ret' = [op |-> "egressText", value |-> TextBody(EgressText(payload.value))]
    /\ UNCHANGED <<text, segs, edits, payload, sharedVars, fetchVars, serverVars>>

\* the end wrapper on a text/ response with logResponseBody on: the body
\* arrived in one or two chunks
ExtractIngressText ==
    /\ payload.tag = "text" /\ ret = Idle
    /\ \E cut \in {0, 1, Len(payload.value)} :
          /\ cut <= Len(payload.value)
          /\ LET chunks == IF cut = 0 THEN <<StringChunk(payload.value)>>
                           ELSE <<StringChunk(SubSeq(payload.value, 1, cut)),
                                  StringChunk(SubSeq(payload.value, cut + 1, Len(payload.value)))>>
             IN  ret' = [op |-> "ingressText", chunks |-> Len(chunks),
                         value |-> ResponseBodyOf(
                                      [logResponseBody |-> TRUE] @@ ServerDefaultConfig,
                                      [path |-> PathUsers], chunks, "text")]
    /\ UNCHANGED <<text, segs, edits, payload, sharedVars, fetchVars, serverVars>>

NextBody ==
    \/ CallSanitizeBody
    \/ CallSanitizeBodyAgain
    \/ ExtractEgressText
    \/ ExtractIngressText

SpecBody == InitBody /\ [][NextBody]_vars

(***************************************************************************)
(* The log code grammar, stated on the segments: six segments between      *)
(* dots, of widths 2, 4, 2, 2, 2, 1, of uppercase letters, digits and one  *)
(* of I W E D.                                                             *)
(***************************************************************************)
IsSegment(seg, cls, width) ==
    Len(seg) = width /\ \A i \in 1..Len(seg) : seg[i] \in cls

MatchesGrammar(s) ==
    LET parts == Split(s, ".")
    IN  /\ Len(parts) = 6
        /\ IsSegment(parts[1], UpperAZ, 2)
        /\ IsSegment(parts[2], Digit, 4)
        /\ IsSegment(parts[3], Digit, 2)
        /\ IsSegment(parts[4], Digit, 2)
        /\ IsSegment(parts[5], Digit, 2)
        /\ IsSegment(parts[6], {"I", "W", "E", "D"}, 1)

SegmentNames == <<"env", "service", "category", "action", "outcome", "severity">>

DecodedCodes(d) ==
    <<d.env.code, d.service.code, d.category.code, d.action.code,
      d.outcome.code, d.severity.code>>

(***************************************************************************)
(* C1: for every six-tuple of catalog segment values, decoding the         *)
(* generated code gives a result that is not null and whose six 'code'     *)
(* fields are the six values, in the order env, service, category,         *)
(* action, outcome, severity.                                              *)
(***************************************************************************)
C1_RoundTrip ==
    (ret.op = "decodeLogCode" /\ segs # NoSegs) =>
        /\ ret.value # Null
        /\ DecodedCodes(ret.value) = segs

C1_Witness ==
    /\ ret.op = "decodeLogCode"
    /\ segs = <<ENV.BE, SERVICE.AUTH, CATEGORY.RESPONSE, ACTION_CODES.SEND,
                OUTCOME.TIMEOUT, SEVERITY.DEBUG>>
    /\ ret.value # Null
    /\ ret.value.service.key = "AUTH"

(***************************************************************************)
(* C2: isValidLogCode is true exactly of the strings of the grammar,       *)
(* whether or not the segment values are in the catalog; on every other    *)
(* string parseLogCode and decodeLogCode return null.                      *)
(***************************************************************************)
C2_ValidIffGrammar ==
    /\ ret.op = "isValidLogCode" => (ret.value <=> MatchesGrammar(text))
    /\ (ret.op \in {"parseLogCode", "decodeLogCode"} /\ ~MatchesGrammar(text)) =>
            ret.value = Null

\* a code of the grammar with values outside the catalog is valid
C2_Witness ==
    /\ ret.op = "isValidLogCode" /\ ret.value = TRUE
    /\ segs = NoSegs
    /\ Split(text, ".")[2] \notin Values(SERVICE)

\* a string one character longer than a code is rejected by all three
C2_WitnessRejected ==
    /\ ret.op = "decodeLogCode" /\ ret.value = Null
    /\ edits = 1 /\ Len(text) = Len(LogCodePattern) + 1

(***************************************************************************)
(* C3: createLogData throws, and makes no event, whenever parseLogCode of  *)
(* the code is null; an event it returns has a code isValidLogCode         *)
(* accepts.                                                                *)
(***************************************************************************)
C3_NoEventAroundMalformedCode ==
    ret.op = "createLogData" =>
        /\ parseLogCode(text) = Null => ret.value.tag = "thrown"
        /\ ret.value.tag = "logData" =>
                (ret.value.code = text /\ MatchesGrammar(ret.value.code)
                    /\ isValidLogCode(ret.value.code))

C3_Witness ==
    /\ ret.op = "createLogData" /\ ret.value.tag = "thrown"
    /\ edits = 1 /\ Len(text) = Len(LogCodePattern)

(***************************************************************************)
(* C4: the level of an event createLogData builds is decided by the        *)
(* Severity segment of its code alone (I info, W warn, E error, D debug),  *)
(* whatever the message, correlation id and data; mapSeverityToLogLevel    *)
(* gives a level on exactly these four inputs.                             *)
(***************************************************************************)
LogLevels == {"info", "warn", "error", "debug"}

LevelOfLetter(c) ==
    CASE c = "I" -> "info" [] c = "W" -> "warn" [] c = "E" -> "error"
      [] c = "D" -> "debug" [] OTHER -> Undefined

C4_LevelFromSeverity ==
    /\ (ret.op = "createLogData" /\ ret.value.tag = "logData") =>
            ret.value.level = LevelOfLetter(text[Len(text)])
    /\ ret.op = "mapSeverityToLogLevel" =>
            /\ ret.value = LevelOfLetter(ret.arg[1])
            /\ ret.value \in LogLevels <=> ret.arg \in Values(SEVERITY)

C4_Witness ==
    /\ ret.op = "createLogData" /\ ret.value.tag = "logData"
    /\ ret.value.level = "warn" /\ ret.value.message = "m2"
    /\ ret.value.correlationId = "c2" /\ ret.value.data = "d1"

(***************************************************************************)
(* C5: decodeLogCode of a code of the grammar is not null; a segment whose *)
(* value is not in its catalog has no key and the description 'Unknown     *)
(* <Segment>', one whose value is in it has the catalog's key; the         *)
(* Severity segment always has a catalog key and description.              *)
(***************************************************************************)
Catalog ==
    [env |-> ENV, service |-> SERVICE, category |-> CATEGORY,
     action |-> ACTION_CODES, outcome |-> OUTCOME, severity |-> SEVERITY]

Fallback ==
    [env |-> "Unknown Environment", service |-> "Unknown Service",
     category |-> "Unknown Category", action |-> "Unknown Action",
     outcome |-> "Unknown Outcome", severity |-> "Unknown Severity"]

C5_UnknownSegmentsFallBack ==
    (ret.op = "decodeLogCode" /\ MatchesGrammar(text)) =>
        /\ ret.value # Null
        /\ \A i \in 1..6 :
              LET name == SegmentNames[i]
                  seg == ret.value[name]
              IN  /\ seg.code = Split(text, ".")[i]
                  /\ seg.code \notin Values(Catalog[name]) =>
                        (seg.key = Undefined /\ seg.description = Fallback[name])
                  /\ seg.code \in Values(Catalog[name]) =>
                        (seg.key \in DOMAIN Catalog[name]
                            /\ Catalog[name][seg.key] = seg.code
                            /\ seg.description # Fallback[name])
        /\ ret.value.severity.key \in DOMAIN SEVERITY
        /\ ret.value.severity.description # Fallback.severity

C5_Witness ==
    /\ ret.op = "decodeLogCode" /\ ret.value # Null
    /\ ret.value.env.description = "Backend"
    /\ ret.value.service.key = Undefined
    /\ ret.value.service.description = "Unknown Service"
    /\ ret.value.outcome.description = "Unknown Outcome"
    /\ ret.value.severity.key = "INFO"

\* an environment outside the catalog
C5_WitnessUnknownEnv ==
    /\ ret.op = "decodeLogCode" /\ ret.value # Null
    /\ ret.value.env.key = Undefined
    /\ ret.value.env.description = "Unknown Environment"

(***************************************************************************)
(* The events of an exchange, as the console shows them.                   *)
(***************************************************************************)
EventsOf(e) == SelectSeq(console, LAMBDA ev : ev.ex = e)

Kind(ev) == ev.record.message

CodeOf(ev) == parseLogCode(ev.record.code)

Count(evs, kind) == Len(SelectSeq(evs, LAMBDA ev : Kind(ev) = kind))

IsRequestEvent(ev) ==
    /\ Kind(ev) = "request"
    /\ CodeOf(ev).category = CATEGORY.REQUEST
    /\ CodeOf(ev).outcome = OUTCOME.SUCCESS /\ CodeOf(ev).severity = SEVERITY.INFO
    /\ ev.record.level = "info"

IsErrorEvent(ev) ==
    /\ Kind(ev) = "error"
    /\ CodeOf(ev).outcome = OUTCOME.FAILURE /\ CodeOf(ev).severity = SEVERITY.ERROR
    /\ ev.record.level = "error"

IsFailedResponseEvent(ev) ==
    /\ Kind(ev) = "response"
    /\ CodeOf(ev).category = CATEGORY.RESPONSE
    /\ CodeOf(ev).outcome = OUTCOME.FAILURE /\ CodeOf(ev).severity = SEVERITY.WARN
    /\ ev.record.level = "warn"

Proxied == windowFetch # OriginalFetch

RequestLogging == Proxied /\ windowFetch.mergedConfig.logRequestResponse

DefaultLogging == Proxied /\ windowFetch.mergedConfig = FetchDefaultConfig

UnderlyingRejected(e) == fx[e].under \in Rejections

UnderlyingResolved(e) == fx[e].under \in Responses

OriginalEndRuns(x) == Len(SelectSeq(x.sent, LAMBDA c : c.via = "end"))

(***************************************************************************)
(* C6: logging never changes the outcome the caller observes.  The wrapped *)
(* fetch resolves with the underlying response exactly when the underlying *)
(* fetch resolves and rejects exactly when it rejects; the middleware      *)
(* calls next() and every res.end the handler calls reaches the original   *)
(* res.end.                                                                *)
(***************************************************************************)
C6_EgressOutcomeUnchanged ==
    \A e \in Exchanges :
        /\ fx[e].st = "resolved" <=> UnderlyingResolved(e)
        /\ fx[e].st = "resolved" => fx[e].result = fx[e].under
        /\ fx[e].st = "rejected" <=> UnderlyingRejected(e)

C6_IngressOutcomeUnchanged ==
    \A e \in Exchanges :
        /\ sx[e].st # "idle" => sx[e].nextCalls = 1
        /\ OriginalEndRuns(sx[e]) = sx[e].endCalls

C6_OutcomeUnchanged == C6_EgressOutcomeUnchanged /\ C6_IngressOutcomeUnchanged

\* res.end(callback) under logResponseBody: the wrapper threw while it
\* captured the chunk and the original end was never run
C6_Witness ==
    \E e \in Exchanges :
        /\ sx[e].wrapped /\ sx[e].endCalls = 1
        /\ OriginalEndRuns(sx[e]) = 0
        /\ sx[e].threw = <<BufferError>>

(***************************************************************************)
(* C7: with request logging on, an egress exchange whose underlying fetch  *)
(* rejects has emitted a request event, then exactly one error event       *)
(* (failure, error) with the same correlation id, no response event, and   *)
(* the wrapped fetch rejects with the value the underlying fetch rejected  *)
(* with.                                                                   *)
(***************************************************************************)
C7_RejectionLoggedAndRethrown ==
    \A e \in Exchanges :
        (RequestLogging /\ UnderlyingRejected(e)) =>
            LET evs == EventsOf(e)
            IN  /\ Len(evs) >= 2
                /\ IsRequestEvent(evs[1])
                /\ IsErrorEvent(evs[Len(evs)])
                /\ Count(evs, "error") = 1 /\ Count(evs, "request") = 1
                /\ Count(evs, "response") = 0
                /\ evs[Len(evs)].record.correlationId = evs[1].record.correlationId
                /\ fx[e].st = "rejected" /\ fx[e].result = fx[e].under

\* the underlying fetch rejected with null: no error event, and the caller
\* sees a TypeError in place of the null
C7_Witness ==
    \E e \in Exchanges :
        /\ RequestLogging
        /\ fx[e].under = Null /\ fx[e].result = NullReferenceError
        /\ Count(EventsOf(e), "error") = 0

(***************************************************************************)
(* C7, for rejections with an Error object: the request event, one error   *)
(* event, no response event, the same value rethrown.                      *)
(***************************************************************************)
C7_ErrorObjectsLoggedAndRethrown ==
    \A e \in Exchanges :
        (RequestLogging /\ fx[e].under = NetworkError) =>
            LET evs == EventsOf(e)
            IN  /\ Len(evs) >= 2
                /\ IsRequestEvent(evs[1])
                /\ IsErrorEvent(evs[Len(evs)])
                /\ Count(evs, "error") = 1 /\ Count(evs, "request") = 1
                /\ Count(evs, "response") = 0
                /\ evs[Len(evs)].record.correlationId = evs[1].record.correlationId
                /\ fx[e].st = "rejected" /\ fx[e].result = fx[e].under

C7_WitnessErrorObject ==
    \E e \in Exchanges :
        /\ RequestLogging
        /\ fx[e].under = NetworkError /\ fx[e].result = NetworkError
        /\ Count(EventsOf(e), "error") = 1

(***************************************************************************)
(* C8, as stated: under the default config, an egress exchange whose       *)
(* underlying fetch resolved with a response that is not ok has exactly    *)
(* two events, a request event (success, info) then a response event       *)
(* (failure, warn).                                                        *)
(***************************************************************************)
C8_ExactlyTwoEvents ==
    \A e \in Exchanges :
        (DefaultLogging /\ UnderlyingResolved(e) /\ ~fx[e].under.ok) =>
            LET evs == EventsOf(e)
            IN  /\ Len(evs) = 2
                /\ IsRequestEvent(evs[1])
                /\ IsFailedResponseEvent(evs[2])

(***************************************************************************)
(* C8, amended: with request logging on, an egress exchange whose          *)
(* underlying fetch resolved with a response that is not ok has one        *)
(* request event (success, info), first, and one response event (failure,  *)
(* warn), after it, with the same correlation id, and no error event.      *)
(* Under the default config these two are followed by the function-name    *)
(* debug event exactly when the call site is known: two events without a   *)
(* call site, three with one.                                              *)
(***************************************************************************)
C8_RequestThenFailedResponse ==
    \A e \in Exchanges :
        (RequestLogging /\ UnderlyingResolved(e) /\ ~fx[e].under.ok) =>
            LET evs == EventsOf(e)
                second == IF windowFetch.mergedConfig.logParameters THEN 3 ELSE 2
            IN  /\ Len(evs) >= second
                /\ IsRequestEvent(evs[1])
                /\ IsFailedResponseEvent(evs[second])
                /\ \A i \in 1..Len(evs) : evs[i].record.correlationId = fx[e].cid
                /\ Count(evs, "request") = 1 /\ Count(evs, "response") = 1
                /\ Count(evs, "error") = 0
                /\ DefaultLogging =>
                      /\ Len(evs) = IF fx[e].stack THEN 3 ELSE 2
                      /\ fx[e].stack => Kind(evs[3]) = "function-name"

\* the default config, a known call site, a response that is not ok: the
\* function-name event is the third event of the exchange
C8_Witness ==
    \E e \in Exchanges :
        /\ DefaultLogging /\ UnderlyingResolved(e) /\ ~fx[e].under.ok
        /\ fx[e].stack /\ Len(EventsOf(e)) = 3

(***************************************************************************)
(* C9: in the console, every response, response-content or error event is *)
(* preceded by the request event of its exchange, carrying the same        *)
(* correlation id, unless the request event was skipped by the config      *)
(* (logRequestResponse off); an exchange on an excluded path emits nothing *)
(* at all.                                                                 *)
(***************************************************************************)
EgressRequestSkipped == runtime = "browser" /\ ~RequestLogging

IngressRequestSkipped(e) ==
    runtime = "node" /\ sx[e].st = "open" /\ ~sx[e].wrapped

C9_RequestBeforeResponse ==
    \A j \in 1..Len(console) :
        Kind(console[j]) \in {"response", "content", "content-error", "error"} =>
            \/ EgressRequestSkipped
            \/ \E i \in 1..(j - 1) :
                  /\ console[i].ex = console[j].ex
                  /\ IsRequestEvent(console[i])
                  /\ console[i].record.correlationId = console[j].record.correlationId

C9_NothingForExcludedPaths ==
    \A e \in Exchanges :
        IngressRequestSkipped(e) => EventsOf(e) = <<>>

C9_WitnessEgress ==
    /\ runtime = "browser" /\ RequestLogging /\ Len(console) >= 4
    /\ console[1].ex = 1 /\ console[2].ex = 2
    /\ console[3].ex = 2 /\ Kind(console[3]) = "response"
    /\ console[Len(console)].ex = 1 /\ Kind(console[Len(console)]) = "error"

(***************************************************************************)
(* C10: res.write and res.end are the originals again as soon as res.end   *)
(* has been called, whatever the end wrapper does afterwards (a throw of   *)
(* the capture or of the emission included); the restoring step runs once  *)
(* for an exchange that was wrapped and never for one that was not         *)
(* (excluded path, request emission failed).                               *)
(***************************************************************************)
C10_RestoredOnce ==
    \A e \in Exchanges :
        LET x == sx[e]
            original == x.write = "originalWrite" /\ x.end = "originalEnd"
        IN  /\ x.restores <= 1
            /\ x.restores = 1 <=> (x.wrapped /\ x.endCalls >= 1)
            /\ x.endCalls >= 1 => original
            /\ x.threw # <<>> => original
            /\ ~x.wrapped => original /\ x.restores = 0
            /\ (x.wrapped /\ x.endCalls = 0) => x.end = "wrapper"

\* the emission inside the end wrapper threw, and a second res.end followed
C10_Witness ==
    \E e \in Exchanges :
        /\ sx[e].wrapped /\ sx[e].threw = <<SinkError>>
        /\ sx[e].endCalls = 2 /\ sx[e].restores = 1

(***************************************************************************)
(* C11: once createFetchProxy has run, window.fetch is the proxy in every  *)
(* later state: no exchange, resolved or rejected, puts the original fetch *)
(* back, so a call made after other exchanges completed is intercepted.    *)
(***************************************************************************)
C11_HookStays ==
    \A e \in Exchanges :
        fx[e].st # "idle" =>
            /\ windowFetch.tag = "proxy"
            /\ windowFetch.mergedConfig \in FetchConfigs

\* the first exchange was rejected and logged; the call made after it was
\* intercepted (its request event follows) and resolved
C11_Witness ==
    /\ Proxied /\ fx[1].st = "rejected" /\ fx[2].st = "resolved"
    /\ \E i, j \in 1..Len(console) :
          /\ i < j
          /\ console[i].ex = 1 /\ Kind(console[i]) = "error"
          /\ console[j].ex = 2 /\ Kind(console[j]) = "request"

(***************************************************************************)
(* C12: an ingress exchange whose path contains an entry of excludePaths   *)
(* as a substring emits no event, has res.write and res.end left as the    *)
(* originals (nothing wrapped, nothing restored) and has next() called     *)
(* exactly once; the handler's res.end then reaches the original directly. *)
(***************************************************************************)
PathContainsExcluded(e) ==
    /\ sx[e].st # "idle"
    /\ \E entry \in {PathHealth, PathMetrics, PathFavicon} :
          \E i \in 1..Len(sx[e].req.path) :
              \E j \in i..Len(sx[e].req.path) :
                  SubSeq(sx[e].req.path, i, j) = entry

IdCarried(e) ==
    /\ sx[e].header = sx[e].cid /\ sx[e].stored = sx[e].cid
    /\ \A i \in 1..Len(EventsOf(e)) : EventsOf(e)[i].record.correlationId = sx[e].cid

FreshlyGenerated(e) ==
    /\ sx[e].cid.tag = "generated" /\ sx[e].cid.prefix = "express"
    /\ \A d \in Exchanges \ {e} : sx[d].cid # sx[e].cid \/ sx[d].inbound = sx[e].cid

C13_HeaderWhenPresent ==
    \A e \in Exchanges :
        sx[e].st # "idle" =>
            /\ sx[e].inbound # NoCid => sx[e].cid = sx[e].inbound
            /\ sx[e].inbound = NoCid => FreshlyGenerated(e)
            /\ IdCarried(e)

(***************************************************************************)
(* C13, amended: the correlation id is the inbound header value when the   *)
(* header is present with a non-empty value; with no header or an empty    *)
(* one it is freshly generated.  Either way it is written to the response  *)
(* header and stored on the request, excluded paths included.              *)
(***************************************************************************)
C13_HeaderWhenNotEmpty ==
    \A e \in Exchanges :
        sx[e].st # "idle" =>
            /\ sx[e].inbound \notin {NoCid, EmptyHeader} => sx[e].cid = sx[e].inbound
            /\ sx[e].inbound \in {NoCid, EmptyHeader} => FreshlyGenerated(e)
            /\ IdCarried(e)

\* an excluded path with an inbound id, and the id on the response header
C13_Witness ==
    \E e \in Exchanges :
        /\ PathContainsExcluded(e) /\ sx[e].inbound.tag = "inbound"
        /\ sx[e].inbound # EmptyHeader
        /\ sx[e].header = sx[e].inbound /\ sx[e].stored = sx[e].inbound

\* an empty header: the id was generated
C13_WitnessEmptyHeader ==
    \E e \in Exchanges :
        sx[e].inbound = EmptyHeader /\ sx[e].cid.tag = "generated"

(***************************************************************************)
(* C14, as stated: every event of one exchange carries the correlation id  *)
(* the exchange obtained once at its start, and two distinct exchanges     *)
(* that did not receive the same inbound header value never have events    *)
(* with the same id.                                                       *)
(***************************************************************************)
CidOf(e) == IF runtime = "browser" THEN fx[e].cid ELSE sx[e].cid

InboundOf(e) == IF runtime = "browser" THEN NoCid ELSE sx[e].inbound

C14_OneIdPerExchange ==
    \A i \in 1..Len(console) :
        /\ CidOf(console[i].ex) # NoCid
        /\ console[i].record.correlationId = CidOf(console[i].ex)

SameInboundHeader(d, e) == InboundOf(d) # NoCid /\ InboundOf(d) = InboundOf(e)

C14_SharedOnlyBySameHeader ==
    \A i, j \in 1..Len(console) :
        (/\ console[i].ex # console[j].ex
         /\ console[i].record.correlationId = console[j].record.correlationId)
            => SameInboundHeader(console[i].ex, console[j].ex)

C14_IdsNeverShared == C14_OneIdPerExchange /\ C14_SharedOnlyBySameHeader

(***************************************************************************)
(* C14, amended: every event of one exchange carries the correlation id    *)
(* the exchange obtained once at its start; events of two distinct         *)
(* exchanges carry the same id only if at least one of the two received    *)
(* that id as its inbound header value (two generated ids are distinct).   *)
(***************************************************************************)
C14_SharedOnlyThroughHeader ==
    \A i, j \in 1..Len(console) :
        (/\ console[i].ex # console[j].ex
         /\ console[i].record.correlationId = console[j].record.correlationId)
            => \/ InboundOf(console[i].ex) = console[i].record.correlationId
               \/ InboundOf(console[j].ex) = console[j].record.correlationId

C14_IdsSharedOnlyThroughHeader ==
    C14_OneIdPerExchange /\ C14_SharedOnlyThroughHeader

\* two overlapping ingress exchanges with generated ids, two events each
C14_Witness ==
    /\ runtime = "node"
    /\ sx[1].cid.tag = "generated" /\ sx[2].cid.tag = "generated"
    /\ sx[1].cid # sx[2].cid
    /\ Len(EventsOf(1)) = 2 /\ Len(EventsOf(2)) = 2
    /\ console[2].ex = 2 /\ console[3].ex = 1

\* the second exchange sent back the id generated for the first
C14_WitnessEchoed ==
    /\ runtime = "node"
    /\ sx[1].inbound = NoCid /\ sx[1].cid.tag = "generated"
    /\ sx[2].inbound = sx[1].cid
    /\ EventsOf(1) # <<>> /\ EventsOf(2) # <<>>

(***************************************************************************)
(* C15: the Outcome and Severity of a response event are a function of the *)
(* status alone.  Ingress: status >= 500 gives failure/error, 400..499     *)
(* failure/warn, below 400 success/info.  Egress: a response that is not   *)
(* ok gives failure/warn, an ok one success/info.                          *)
(***************************************************************************)
IngressGrade(statusCode) ==
    IF statusCode >= 500 THEN <<OUTCOME.FAILURE, SEVERITY.ERROR>>
    ELSE IF statusCode >= 400 /\ statusCode <= 499 THEN <<OUTCOME.FAILURE, SEVERITY.WARN>>
    ELSE <<OUTCOME.SUCCESS, SEVERITY.INFO>>

EgressGrade(ok) ==
    IF ok THEN <<OUTCOME.SUCCESS, SEVERITY.INFO>> ELSE <<OUTCOME.FAILURE, SEVERITY.WARN>>

GradeOf(ev) == <<CodeOf(ev).outcome, CodeOf(ev).severity>>

C15_GradeFollowsStatus ==
    \A i \in 1..Len(console) :
        Kind(console[i]) = "response" =>
            /\ CodeOf(console[i]).category = CATEGORY.RESPONSE
            /\ GradeOf(console[i]) =
                  IF runtime = "node" THEN IngressGrade(console[i].record.data.status)
                  ELSE EgressGrade(console[i].record.data.ok)

\* the boundary statuses of the ingress side, one response event each
C15_Witness ==
    /\ runtime = "node" /\ scope = "wide"
    /\ \E i \in 1..Len(console) :
          /\ Kind(console[i]) = "response"
          /\ console[i].record.data.status = 400
          /\ GradeOf(console[i]) = <<OUTCOME.FAILURE, SEVERITY.WARN>>

C15_WitnessServerError ==
    /\ runtime = "node" /\ scope = "wide"
    /\ \E i \in 1..Len(console) :
          /\ Kind(console[i]) = "response"
          /\ console[i].record.data.status = 500
          /\ GradeOf(console[i]) = <<OUTCOME.FAILURE, SEVERITY.ERROR>>

C15_WitnessEgress ==
    /\ runtime = "browser"
    /\ \E i \in 1..Len(console) :
          /\ Kind(console[i]) = "response" /\ ~console[i].record.data.ok
          /\ GradeOf(console[i]) = <<OUTCOME.FAILURE, SEVERITY.WARN>>

(***************************************************************************)
(* C16: redaction is idempotent: for every body built from scalars,        *)
(* objects and arrays, sanitizeBody(sanitizeBody(x)) equals                *)
(* sanitizeBody(x).                                                        *)
(***************************************************************************)
SanitizeBodyCalled == payload.tag = "body" /\ ret.op = "sanitizeBody"

C16_Idempotent ==
    SanitizeBodyCalled =>
        /\ sanitizeBody(sanitizeBody(payload.value)) = sanitizeBody(payload.value)
        /\ ret.calls = 2 =>
              Deref(ret.heap, ret.value) = Deref(ret.heap, ret.first)

\* a body three levels deep with something redacted, sanitised twice
C16_Witness ==
    /\ SanitizeBodyCalled /\ ret.calls = 2
    /\ Depth(payload.value) = 3
    /\ Deref(ret.heap, ret.first) # payload.value
    /\ Deref(ret.heap, ret.value) = Deref(ret.heap, ret.first)

(***************************************************************************)
(* C17: sanitizeBody never mutates its argument: after the call the input  *)
(* and every object and array inside it have the keys and values they had  *)
(* before, at every depth; every object of the result is a new object,     *)
(* never one of the input.                                                 *)
(***************************************************************************)
RECURSIVE Reachable(_, _)
Reachable(heap, value) ==
    IF value.tag # "ref" THEN {}
    ELSE {value.addr} \cup
         UNION {Reachable(heap, heap[value.addr].fields[i].value) :
                    i \in 1..Len(heap[value.addr].fields)}

C17_ArgumentUntouched ==
    SanitizeBodyCalled =>
        /\ Len(ret.heap) >= Len(ret.before)
        /\ \A addr \in 1..Len(ret.before) : ret.heap[addr] = ret.before[addr]
        /\ Deref(ret.heap, ret.arg) = Deref(ret.before, ret.arg)

C17_ResultIsNew ==
    SanitizeBodyCalled =>
        /\ \A addr \in Reachable(ret.heap, ret.value) : addr > Len(ret.before)
        /\ ~IsObjectValue(ret.arg) => ret.value = ret.arg /\ ret.heap = ret.before

C17_NeverMutates == C17_ArgumentUntouched /\ C17_ResultIsNew

\* an object with a redacted field inside an object inside an array
C17_Witness ==
    /\ SanitizeBodyCalled /\ ret.calls = 1
    /\ Depth(payload.value) = 3 /\ payload.value.tag = "array"
    /\ Deref(ret.heap, ret.value) # payload.value
    /\ Deref(ret.heap, ret.arg) = payload.value
    /\ Len(ret.heap) = 2 * Len(ret.before)

(***************************************************************************)
(* C18: the result has the shape of the input; a value is replaced by      *)
(* '[REDACTED]' exactly when its key matches a sensitive pattern in any    *)
(* spelling, at any depth and inside array elements; a value under another *)
(* key is unchanged if scalar and redacted in the same way if structured;  *)
(* an input that is not structured is returned unchanged.                  *)
(***************************************************************************)
\* the keys of the bodies that match: 'Pass' /pass(word)?/i, 'ssn' /ssn/i,
\* 'monKEY' /key/i; 'n' and the array indices match nothing
MatchingKeys == {KeyPassword, KeySsn, KeyMonkey}

RECURSIVE RedactedAs(_, _)
RedactedAs(input, output) ==
    IF ~IsStructured(input) THEN output = input
    ELSE /\ output.tag = input.tag
         /\ Len(output.fields) = Len(input.fields)
         /\ \A i \in 1..Len(input.fields) :
               /\ output.fields[i].key = input.fields[i].key
               /\ IF input.fields[i].key \in MatchingKeys
                  THEN output.fields[i].value = StringBody("[REDACTED]")
                  ELSE RedactedAs(input.fields[i].value, output.fields[i].value)

C18_RedactsExactlyMatchingKeys ==
    SanitizeBodyCalled =>
        /\ RedactedAs(payload.value, sanitizeBody(payload.value))
        /\ ret.calls = 1 =>
              /\ Deref(ret.heap, ret.value) = sanitizeBody(payload.value)
              /\ RedactedAs(payload.value, Deref(ret.heap, ret.value))

\* an array holding an object with a field 'Pass' beside an object with a
\* field 'n': the first is redacted, the second is not
C18_Witness ==
    /\ SanitizeBodyCalled /\ ret.calls = 1
    /\ payload.value =
          ArrayBody(<<ObjectBody(<<Field(KeyName, StringBody("v"))>>),
                      ObjectBody(<<Field(KeyPassword, StringBody("v"))>>)>>)
    /\ Deref(ret.heap, ret.value) =
          ArrayBody(<<ObjectBody(<<Field(KeyName, StringBody("v"))>>),
                      ObjectBody(<<Field(KeyPassword, StringBody("[REDACTED]"))>>)>>)

\* the example of the specification, with the keys of the model:
\* { Pass: 'v', ... } inside { n: { ... } }
C18_WitnessNested ==
    /\ SanitizeBodyCalled /\ ret.calls = 1
    /\ payload.value =
          ObjectBody(<<Field(KeyName, ObjectBody(<<Field(KeyName, StringBody("v")),
                                                   Field(KeySsn, StringBody("v"))>>))>>)
    /\ Deref(ret.heap, ret.value) =
          ObjectBody(<<Field(KeyName, ObjectBody(<<Field(KeyName, StringBody("v")),
                                                   Field(KeySsn, Redacted)>>))>>)

(***************************************************************************)
(* C20: for a text content type, on the egress and on the ingress side, a  *)
(* body longer than 1000 characters is logged as its first 1000 characters *)
(* followed by '... (truncated)', and a body of at most 1000 characters is *)
(* logged unchanged, with no marker.                                       *)
(***************************************************************************)
TruncatedAtCap(chars) ==
    IF Len(chars) > 1000
    THEN SubSeq(chars, 1, 1000) \o TruncationMarker
    ELSE chars

TextExtracted == payload.tag = "text" /\ ret.op \in {"egressText", "ingressText"}

C20_TextTruncatedAtCap ==
    TextExtracted => ret.value = TextBody(TruncatedAtCap(payload.value))

\* the egress side does what the statement says
C20_EgressTruncatedAtCap ==
    (TextExtracted /\ ret.op = "egressText") =>
        ret.value = TextBody(TruncatedAtCap(payload.value))

\* so does the ingress side while every character takes one byte
C20_IngressTruncatedAtCapInAscii ==
    (TextExtracted /\ ret.op = "ingressText"
        /\ ByteLength(payload.value) = Len(payload.value)) =>
        ret.value = TextBody(TruncatedAtCap(payload.value))

\* 800 characters in 1100 bytes on the ingress side: nothing is cut, the
\* marker is appended
C20_Witness ==
    /\ TextExtracted /\ ret.op = "ingressText"
    /\ Len(payload.value) = 800 /\ ByteLength(payload.value) = 1100
    /\ ret.value = TextBody(payload.value \o TruncationMarker)

\* 1500 characters on the egress side: 1000 of them and the marker
C20_WitnessEgress ==
    /\ TextExtracted /\ ret.op = "egressText"
    /\ Len(payload.value) = 1500
    /\ Len(ret.value.value) = 1000 + Len(TruncationMarker)
    /\ SubSeq(ret.value.value, 1, 1000) = SubSeq(payload.value, 1, 1000)
    /\ SubSeq(ret.value.value, 1001, Len(ret.value.value)) = TruncationMarker

(***************************************************************************)
(* C19, as stated: two ingress exchanges that differ only in the values    *)
(* under sensitive keys of the structured request body or of the           *)
(* structured response body emit identical events (timestamp and duration  *)
(* apart), and no emitted body contains the original value of a sensitive  *)
(* key.                                                                    *)
(***************************************************************************)
RECURSIVE SameButSecrets(_, _)
SameButSecrets(a, b) ==
    IF ~IsStructured(a) \/ ~IsStructured(b) THEN a = b
    ELSE /\ a.tag = b.tag /\ Len(a.fields) = Len(b.fields)
         /\ \A i \in 1..Len(a.fields) :
               /\ a.fields[i].key = b.fields[i].key
               /\ \/ IsSensitiveKey(a.fields[i].key)
                  \/ SameButSecrets(a.fields[i].value, b.fields[i].value)

\* the response body is structured: it is sent as JSON and parses
SameChunkButSecrets(c, d) ==
    \/ c = d
    \/ /\ c.tag = "string" /\ d.tag = "string"
       /\ JsonParse(c.value).tag # "thrown" /\ JsonParse(d.value).tag # "thrown"
       /\ SameButSecrets(JsonParse(c.value), JsonParse(d.value))

SameGivenButSecrets(g, h) ==
    IF DOMAIN g = {"body"} /\ DOMAIN h = {"body"}
    THEN SameButSecrets(g.body, h.body)
    ELSE g = h

DifferOnlyInSecrets(d, e) ==
    /\ d # e /\ sx[d].st = "ended" /\ sx[e].st = "ended"
    /\ sx[d].req = sx[e].req /\ sx[d].inbound = sx[e].inbound
    /\ sx[d].endCalls = sx[e].endCalls
    /\ Len(sx[d].given) = Len(sx[e].given)
    /\ \A i \in 1..Len(sx[d].given) : SameGivenButSecrets(sx[d].given[i], sx[e].given[i])
    /\ Len(sx[d].sent) = Len(sx[e].sent)
    /\ \A i \in 1..Len(sx[d].sent) :
          /\ sx[d].sent[i].via = sx[e].sent[i].via
          /\ SameChunkButSecrets(sx[d].sent[i].chunk, sx[e].sent[i].chunk)
          /\ sx[d].sent[i].chunk # sx[e].sent[i].chunk =>
                sx[d].given[2].contentType = "json"

Emitted(e) ==
    [i \in 1..Len(EventsOf(e)) |->
        [channel |-> EventsOf(e)[i].channel, record |-> EventsOf(e)[i].record]]

RECURSIVE ContainsSecret(_)
ContainsSecret(data) ==
    \/ data \in {SecretV, SecretW}
    \/ /\ IsStructured(data)
       /\ \E i \in 1..Len(data.fields) : ContainsSecret(data.fields[i].value)

C19_NoSecretInStructuredBody ==
    runtime = "node" =>
        \A i \in 1..Len(console) : ~ContainsSecret(console[i].record.data.body)

WithoutGeneratedId(events) ==
    [i \in 1..Len(events) |->
        IF events[i].record.correlationId.tag = "generated"
        THEN [events[i] EXCEPT !.record.correlationId = NoCid]
        ELSE events[i]]

C19_WitnessGeneratedIds ==
    /\ scope = "bodies" /\ DifferOnlyInSecrets(1, 2)
    /\ sx[1].inbound = NoCid
    /\ sx[1].given[1].body = SecretBody(SecretV)
    /\ sx[2].given[1].body = SecretBody(SecretW)
    /\ Len(Emitted(1)) = 2 /\ Emitted(1) # Emitted(2)

(***************************************************************************)
(* C21, as stated: when the declared content type is JSON and the body     *)
(* does not deserialize, the extractor falls back to its text or binary    *)
(* branch, and the failure never reaches the exchange or its caller.       *)
(***************************************************************************)
IngressDecodeFailed(e) ==
    /\ runtime = "node" /\ scope = "bodies"
    /\ sx[e].st = "ended" /\ sx[e].restores = 1
    /\ expressCfg.mergedConfig.logResponseBody
    /\ sx[e].given[2].contentType = "json"
    /\ JsonParse(ConcatChunks(sx[e].chunks)).tag = "thrown"

EgressDecodeFailed(e) ==
    /\ runtime = "browser"
    /\ fx[e].content = "unreadable" /\ fx[e].under.contentType = "json"

ResponseEventBodies(e) ==
    {ev.record.data.body : ev \in {EventsOf(e)[i] : i \in
        {i \in 1..Len(EventsOf(e)) : Kind(EventsOf(e)[i]) = "response"}}}

C21_DecodeFailureNotPropagated ==
    /\ \A e \in Exchanges :
          IngressDecodeFailed(e) =>
              /\ sx[e].threw = <<>> /\ sx[e].nextCalls = 1
              /\ OriginalEndRuns(sx[e]) = sx[e].endCalls
              /\ Count(EventsOf(e), "response") = 1
    /\ \A e \in Exchanges :
          EgressDecodeFailed(e) =>
              /\ fx[e].st = "resolved" /\ fx[e].result = fx[e].under
              /\ Count(EventsOf(e), "response") = 1

IsContentErrorEvent(ev) ==
    /\ Kind(ev) = "content-error"
    /\ CodeOf(ev).category = CATEGORY.RESPONSE
    /\ CodeOf(ev).outcome = OUTCOME.FAILURE /\ CodeOf(ev).severity = SEVERITY.WARN

C21_WitnessEgress ==
    \E e \in Exchanges :
        /\ EgressDecodeFailed(e) /\ fx[e].st = "resolved"
        /\ Count(EventsOf(e), "content-error") = 1

(***************************************************************************)
(* C22: generateCorrelationId(prefix) returns '<prefix>-<digits>-<suffix>' *)
(* with a suffix of exactly 8 characters of [a-z0-9], for every value the  *)
(* random source can produce; with no argument the prefix is 'log'.        *)
(***************************************************************************)
LowerAlphanumeric ==
    {LowerLetters[i] : i \in 1..Len(LowerLetters)} \cup Digit

\* ^<prefix>-\d+-[a-z0-9]{n}$ for some n in the set
MatchesIdFormat(chars, prefix, suffixLengths) ==
    \E n \in suffixLengths :
        \E d \in 1..(Len(chars) - Len(prefix) - n - 2) :
            /\ Len(chars) = Len(prefix) + 1 + d + 1 + n
            /\ SubSeq(chars, 1, Len(prefix)) = prefix
            /\ chars[Len(prefix) + 1] = "-"
            /\ \A i \in (Len(prefix) + 2)..(Len(prefix) + 1 + d) : chars[i] \in Digit
            /\ chars[Len(prefix) + d + 2] = "-"
            /\ \A i \in (Len(prefix) + d + 3)..Len(chars) : chars[i] \in LowerAlphanumeric

CorrelationIdGenerated == ret.op = "generateCorrelationId"

PrefixUsed == IF ret.prefix = Undefined THEN <<"l", "o", "g">> ELSE ret.prefix

C22_SuffixOfEight ==
    CorrelationIdGenerated => MatchesIdFormat(ret.value, PrefixUsed, {8})

\* what does hold: the prefix, the digits, and a suffix of at most 8
\* characters of [a-z0-9], as many as the fraction has digits
C22_SuffixOfAtMostEight ==
    CorrelationIdGenerated =>
        MatchesIdFormat(ret.value, PrefixUsed,
                        {IF Len(ret.random) < 8 THEN Len(ret.random) ELSE 8})

\* Math.random() gave 0.5: the id ends in '-i'
C22_Witness ==
    /\ CorrelationIdGenerated /\ ret.prefix = Undefined /\ ret.random = <<"i">>
    /\ ret.value = <<"l", "o", "g", "-", "1", "7", "3", "0", "-", "i">>

\* a fraction of eleven digits: eight of them
C22_WitnessEight ==
    /\ CorrelationIdGenerated /\ Len(ret.random) = 11
    /\ MatchesIdFormat(ret.value, PrefixUsed, {8})

(***************************************************************************)
(* C23: on ingress a body appears in the request event only if             *)
(* logRequestBody is on and the path contains no excludeRequestBody entry, *)
(* and in the response event only if logResponseBody is on and the path    *)
(* contains no excludeResponseBody entry; a body exclusion suppresses the  *)
(* body only: the request and response events are still emitted.           *)
(***************************************************************************)
PathContains(e, entries) ==
    \E entry \in entries :
        \E i \in 1..Len(sx[e].req.path) :
            \E j \in i..Len(sx[e].req.path) :
                SubSeq(sx[e].req.path, i, j) = entry

HasBody(ev) == ev.record.data.body # [tag |-> "undefined"]

C23_BodyOnlyWhenEnabledAndNotExcluded ==
    runtime = "node" =>
        \A e \in Exchanges : \A i \in 1..Len(EventsOf(e)) :
            LET ev == EventsOf(e)[i]
                config == expressCfg.mergedConfig
            IN  /\ (Kind(ev) = "request" /\ HasBody(ev)) =>
                      /\ config.logRequestBody
                      /\ ~PathContains(e, config.excludeRequestBody)
                /\ (Kind(ev) = "response" /\ HasBody(ev)) =>
                      /\ config.logResponseBody
                      /\ ~PathContains(e, config.excludeResponseBody)

BodyExcluded(e) ==
    /\ runtime = "node" /\ sx[e].wrapped
    /\ \/ PathContains(e, expressCfg.mergedConfig.excludeRequestBody)
       \/ PathContains(e, expressCfg.mergedConfig.excludeResponseBody)

C23_EventsStillEmitted ==
    \A e \in Exchanges :
        BodyExcluded(e) =>
            /\ Count(EventsOf(e), "request") = 1
            /\ IsRequestEvent(EventsOf(e)[1])
            /\ (sx[e].st = "ended" /\ sx[e].threw = <<>>) =>
                  Count(EventsOf(e), "response") = 1

C23_BodyGating ==
    C23_BodyOnlyWhenEnabledAndNotExcluded /\ C23_EventsStillEmitted

\* '/u/me' with both bodies logged and both excluded by '/me': a body was
\* received and a JSON body sent, two events, no body in either
C23_Witness ==
    /\ runtime = "node" /\ scope = "wide" /\ sx[1].st = "ended"
    /\ sx[1].req.path = PathUsersMe
    /\ expressCfg.mergedConfig.logRequestBody /\ expressCfg.mergedConfig.logResponseBody
    /\ expressCfg.mergedConfig.excludeRequestBody = {PathMe}
    /\ expressCfg.mergedConfig.excludeResponseBody = {PathMe}
    /\ sx[1].given[1].body # UndefinedBody
    /\ sx[1].given[2].contentType = "json" /\ sx[1].chunks = <<JsonChunk>>
    /\ Len(EventsOf(1)) = 2
    /\ ~HasBody(EventsOf(1)[1]) /\ ~HasBody(EventsOf(1)[2])

\* the same config on '/u': both events carry a body
C23_WitnessNotExcluded ==
    /\ runtime = "node" /\ scope = "wide" /\ sx[1].st = "ended"
    /\ sx[1].req.path = PathUsers
    /\ expressCfg.mergedConfig.excludeRequestBody = {PathMe}
    /\ expressCfg.mergedConfig.excludeResponseBody = {PathMe}
    /\ Len(EventsOf(1)) = 2
    /\ HasBody(EventsOf(1)[1]) /\ HasBody(EventsOf(1)[2])

(***************************************************************************)
(* C24: with egress response-content logging on, the pipeline reads only a *)
(* duplicate of the response, made before the response is handed back to   *)
(* the caller; the pipeline never consumes the body of the original, so    *)
(* the caller can read it exactly once, whatever the interleaving.         *)
(***************************************************************************)
ContentLogged(e) ==
    /\ runtime = "browser" /\ windowFetch # OriginalFetch
    /\ windowFetch.mergedConfig.logRequestResponse
    /\ windowFetch.mergedConfig.logResponseContent
    /\ fx[e].st = "resolved" /\ fx[e].result.tag = "response"

C24_PipelineReadsOnlyTheClone ==
    \A e \in Exchanges :
        /\ ContentLogged(e) =>
              /\ fx[e].clone # "none"
              /\ fx[e].content = "reading" => fx[e].clone = "reading"
              /\ fx[e].content \in {"done", "unreadable"} => fx[e].clone = "read"
        /\ (runtime = "browser" /\ fx[e].bodyUsed) => Len(fx[e].reads) >= 1
        /\ (runtime = "browser" /\ Len(fx[e].reads) >= 1) => fx[e].reads[1] = "ok"
        /\ (runtime = "browser" /\ Len(fx[e].reads) >= 2) => fx[e].reads[2] = "TypeError"

\* the caller read the body while the pipeline was still reading the clone
C24_Witness ==
    /\ ContentLogged(1) /\ fx[1].content = "reading" /\ fx[1].clone = "reading"
    /\ fx[1].reads = <<"ok">>

\* the pipeline finished with the clone first, then the caller read the
\* original once and tried again
C24_WitnessAfter ==
    /\ ContentLogged(1) /\ fx[1].content = "done" /\ fx[1].clone = "read"
    /\ fx[1].reads = <<"ok", "TypeError">>
    /\ \E i \in 1..Len(console) : console[i].ex = 1 /\ Kind(console[i]) = "content"

(***************************************************************************)
(* C25: expressErrorLogger, for every error passed to it, emits exactly    *)
(* one event with Outcome=failure and Severity=error that carries the      *)
(* request's correlation id when it is set and a generated one otherwise,  *)
(* then calls next once with the same error.                               *)
(***************************************************************************)
ErrorEventsOf(e) == SelectSeq(EventsOf(e), LAMBDA ev : Kind(ev) = "error")

C25_OneErrorEventThenNext ==
    \A e \in Exchanges :
        /\ Len(ErrorEventsOf(e)) = Len(sx[e].errSeen)
        /\ sx[e].errNext = sx[e].errSeen
        /\ sx[e].errSeen # <<>> =>
              LET ev == ErrorEventsOf(e)[1]
              IN  /\ IsErrorEvent(ev)
                  /\ CodeOf(ev).category = CATEGORY.REQUEST
                  /\ CodeOf(ev).action = ACTION_CODES.ERROR
                  /\ ev.channel = "error"
                  /\ ev.record.data.error = MessageOf(sx[e].errSeen[1])
                  /\ IF sx[e].stored # NoCid
                     THEN ev.record.correlationId = sx[e].stored
                     ELSE /\ ev.record.correlationId.tag = "generated"
                          /\ ev.record.correlationId.prefix = "express-error"

\* an error on a request the logger let through with the id of its header:
\* the error event follows the request event and carries that id
C25_Witness ==
    /\ runtime = "node" /\ sx[1].errSeen = <<HandlerError>> /\ sx[1].errNext = <<HandlerError>>
    /\ sx[1].stored = sx[1].inbound /\ sx[1].stored.tag # "generated"
    /\ Len(EventsOf(1)) = 2 /\ Kind(EventsOf(1)[1]) = "request"
    /\ IsErrorEvent(EventsOf(1)[2])
    /\ EventsOf(1)[2].record.correlationId = sx[1].stored

\* an error on a request the logger never saw: a generated id
C25_WitnessGenerated ==
    /\ runtime = "node" /\ sx[1].st = "errored" /\ sx[1].errNext = <<ThrownString>>
    /\ Len(EventsOf(1)) = 1
    /\ EventsOf(1)[1].record.correlationId.tag = "generated"
    /\ EventsOf(1)[1].record.correlationId.prefix = "express-error"

(***************************************************************************)
(* C26: logToConsole emits exactly one serialized record per call, on      *)
(* console.error if and only if the level is 'error', and on console.log   *)
(* for info, warn and debug.                                               *)
(***************************************************************************)
C26_OneRecordOnTheChannelOfItsLevel ==
    (runtime = "library" /\ ret.op = "logToConsole") =>
        /\ Len(console) = ret.before + 1
        /\ console[Len(console)].record = ret.arg
        /\ console[Len(console)].channel \in {"error", "log"}
        /\ console[Len(console)].channel = "error" <=> ret.arg.level = "error"
        /\ ret.arg.level \in {"info", "warn", "debug"} =>
              console[Len(console)].channel = "log"

\* a record of level 'error' written to console.error
C26_Witness ==
    /\ runtime = "library" /\ ret.op = "logToConsole"
    /\ ret.arg.level = "error" /\ Len(console) = 1 /\ console[1].channel = "error"

\* one record of each other level written to console.log
C26_WitnessWarn ==
    /\ runtime = "library" /\ ret.op = "logToConsole"
    /\ ret.arg.level = "warn" /\ console[1].channel = "log"

C26_WitnessInfo ==
    /\ runtime = "library" /\ ret.op = "logToConsole"
    /\ ret.arg.level = "info" /\ console[1].channel = "log"

C26_WitnessDebug ==
    /\ runtime = "library" /\ ret.op = "logToConsole"
    /\ ret.arg.level = "debug" /\ console[1].channel = "log"

(***************************************************************************)
(* C27: with response-body capture on, every write and end call on the     *)
(* instrumented response is forwarded exactly once to the original method  *)
(* with the same arguments and its result returned, and the captured       *)
(* buffer equals the in-order concatenation of every chunk passed to write *)
(* followed by the chunk passed to end.                                    *)
(***************************************************************************)
Capturing(e) ==
    /\ runtime = "node" /\ sx[e].wrapped /\ expressCfg.mergedConfig.logResponseBody

\* the calls made through the wrappers
InstrumentedCalls(e) ==
    SelectSeq(sx[e].calls, LAMBDA c : c.through = "wrapper")

RECURSIVE DataPassed(_)
DataPassed(calls) ==
    IF calls = <<>> THEN <<>>
    ELSE (IF Head(calls).chunk.tag = "string" THEN Head(calls).chunk.value ELSE <<>>)
            \o DataPassed(Tail(calls))

ForwardedOnce(e) ==
    /\ Len(sx[e].sent) = Len(sx[e].calls)
    /\ \A i \in 1..Len(sx[e].calls) :
          i <= Len(sx[e].sent) =>
              /\ sx[e].sent[i].via = sx[e].calls[i].via
              /\ sx[e].sent[i].chunk = sx[e].calls[i].chunk
              /\ sx[e].sent[i].args = sx[e].calls[i].args
              /\ sx[e].calls[i].returned = sx[e].sent[i].result

CapturedInOrder(e) ==
    ConcatChunks(sx[e].chunks) = DataPassed(InstrumentedCalls(e))

C27_ForwardedOnceAndCaptured ==
    \A e \in Exchanges : Capturing(e) => (ForwardedOnce(e) /\ CapturedInOrder(e))

PassedCallback(e) ==
    \E i \in 1..Len(sx[e].calls) :
        sx[e].calls[i].through = "wrapper" /\ sx[e].calls[i].chunk = CallbackChunk

\* the same for exchanges whose handler passes data or nothing as the chunk
C27_ForwardedOnceAndCapturedData ==
    \A e \in Exchanges :
        (Capturing(e) /\ ~PassedCallback(e)) => (ForwardedOnce(e) /\ CapturedInOrder(e))

\* res.write('a') was forwarded, res.end(callback) threw in the wrapper and
\* never reached the original end
C27_Witness ==
    /\ Capturing(1) /\ scope = "capture"
    /\ Len(sx[1].calls) = 2 /\ sx[1].calls[1].chunk = ChunkA
    /\ sx[1].calls[2].via = "end" /\ sx[1].calls[2].chunk = CallbackChunk
    /\ sx[1].calls[2].returned = BufferError
    /\ Len(sx[1].sent) = 1 /\ sx[1].st = "open"

\* write('b', 'utf8'), write('a'), end('c'): three calls forwarded, the
\* buffer holds 'bac'
C27_WitnessData ==
    /\ Capturing(1) /\ scope = "capture" /\ sx[1].st = "ended"
    /\ Len(sx[1].sent) = 3 /\ ForwardedOnce(1)
    /\ sx[1].sent[1].args = <<"utf8">> /\ sx[1].sent[1].result = FALSE
    /\ ConcatChunks(sx[1].chunks) = <<"b", "a", "c">>

(***************************************************************************)
(* C28: when ingress exchanges overlap, their write and end calls          *)
(* interleaved in any order, the body of each exchange's response event is *)
(* built only from the chunks written to that exchange's own response, and *)
(* its duration is measured from that exchange's own start time.           *)
(***************************************************************************)
ResponseEventsOf(e) == SelectSeq(EventsOf(e), LAMBDA ev : Kind(ev) = "response")

C28_OwnChunksAndOwnStart ==
    \A e \in Exchanges :
        (runtime = "node" /\ scope = "overlap" /\ ResponseEventsOf(e) # <<>>) =>
            LET ev == ResponseEventsOf(e)[1]
                request == EventsOf(e)[1]
            IN  /\ Len(ResponseEventsOf(e)) = 1 /\ Kind(request) = "request"
                /\ ev.record.data.body
                      = TextBody(IngressText(DataPassed(InstrumentedCalls(e))))
                /\ ev.record.data.duration
                      = ev.record.timestamp - request.record.timestamp
                /\ request.record.timestamp = sx[e].start

Overlapped(d, e) ==
    /\ ResponseEventsOf(d) # <<>> /\ ResponseEventsOf(e) # <<>>
    /\ sx[d].start < sx[e].start
    /\ sx[e].start < ResponseEventsOf(d)[1].record.timestamp

\* exchange 2 started while exchange 1 was open, each wrote its own chunk
\* in between, and the two events differ in body and in duration
C28_Witness ==
    /\ runtime = "node" /\ scope = "overlap" /\ Overlapped(1, 2)
    /\ ResponseEventsOf(1)[1].record.data.body = TextBody(<<"a", "c">>)
    /\ ResponseEventsOf(2)[1].record.data.body = TextBody(<<"b">>)
    /\ ResponseEventsOf(1)[1].record.data.duration = 3
    /\ ResponseEventsOf(2)[1].record.data.duration = 1

(***************************************************************************)
(* C29: with logRequestResponse off, an egress exchange emits no request,  *)
(* parameter, response or response-content event, whatever logParameters   *)
(* and logResponseContent are, yet it still emits the error event when the *)
(* fetch rejects and the function-name event when logFunctionName is on    *)
(* (and the call site is known), with no request event before them.        *)
(***************************************************************************)
RequestLoggingOff ==
    runtime = "browser" /\ Proxied /\ ~windowFetch.mergedConfig.logRequestResponse

NoExchangeEvents(e) ==
    \A kind \in {"request", "parameters", "response", "content", "content-error"} :
        Count(EventsOf(e), kind) = 0

FunctionNameStillLogged(e) ==
    (fx[e].st = "resolved" /\ windowFetch.mergedConfig.logFunctionName /\ fx[e].stack) =>
        /\ Count(EventsOf(e), "function-name") = 1
        /\ EventsOf(e)[1].record.level = "debug"
        /\ EventsOf(e)[1].record.correlationId = fx[e].cid

ErrorStillLogged(e) ==
    /\ Count(EventsOf(e), "error") = 1
    /\ IsErrorEvent(EventsOf(e)[1])
    /\ EventsOf(e)[1].record.correlationId = fx[e].cid

C29_OnlyErrorAndFunctionName ==
    \A e \in Exchanges :
        RequestLoggingOff =>
            /\ NoExchangeEvents(e)
            /\ FunctionNameStillLogged(e)
            /\ UnderlyingRejected(e) => ErrorStillLogged(e)

\* the same, for fetches that reject with an Error object
C29_OnlyErrorObjectsAndFunctionName ==
    \A e \in Exchanges :
        RequestLoggingOff =>
            /\ NoExchangeEvents(e)
            /\ FunctionNameStillLogged(e)
            /\ fx[e].under = NetworkError => ErrorStillLogged(e)

\* logRequestResponse off, logParameters and logResponseContent on, the fetch
\* rejected with null: no event at all, and the caller gets a TypeError
C29_Witness ==
    /\ RequestLoggingOff
    /\ windowFetch.mergedConfig.logParameters
    /\ windowFetch.mergedConfig.logResponseContent
    /\ fx[1].under = Null /\ fx[1].st = "rejected"
    /\ fx[1].result = NullReferenceError
    /\ EventsOf(1) = <<>>

\* the error event alone, then the function-name event of the next call
\* alone
C29_WitnessAlone ==
    /\ RequestLoggingOff
    /\ windowFetch.mergedConfig.logParameters
    /\ windowFetch.mergedConfig.logResponseContent
    /\ fx[1].under = NetworkError /\ fx[2].st = "resolved"
    /\ Len(console) = 2
    /\ IsErrorEvent(console[1]) /\ console[1].ex = 1
    /\ Kind(console[2]) = "function-name" /\ console[2].ex = 2

(***************************************************************************)
(* C30: each call of createFetchProxy wraps whatever window.fetch is at    *)
(* that moment, so after n setup calls one fetch invocation reaches the    *)
(* original fetch exactly once but passes through n wrappers, emitting n   *)
(* request events with n separately generated correlation ids.             *)
(***************************************************************************)
Invoked(e) == runtime = "browser" /\ scope = "stacked" /\ fx[e].st # "idle"

\* the configs of the wrappers that were installed when e was invoked
LayersAtCall(e) == Layers(fx[e].via)

SetupsAtCall(e) == Setups(fx[e].via)

IdsOf(e) == <<fx[e].cid>> \o fx[e].inner

RequestEventsOf(e) == SelectSeq(EventsOf(e), LAMBDA ev : Kind(ev) = "request")

ThroughEveryWrapper(e) ==
    /\ fx[e].originalCalls = 1
    /\ Len(IdsOf(e)) = SetupsAtCall(e)
    /\ \A i \in 1..Len(IdsOf(e)) :
          /\ IdsOf(e)[i].tag = "generated" /\ IdsOf(e)[i].prefix = "fetch"
          /\ \A j \in 1..Len(IdsOf(e)) : i # j => IdsOf(e)[i] # IdsOf(e)[j]

C30_OneRequestEventPerSetup ==
    \A e \in Exchanges :
        Invoked(e) =>
            /\ ThroughEveryWrapper(e)
            /\ Len(RequestEventsOf(e)) = SetupsAtCall(e)
            /\ \A i \in 1..Len(RequestEventsOf(e)) :
                  RequestEventsOf(e)[i].record.correlationId = IdsOf(e)[i]

\* the ids of the wrappers that log requests, outermost first
LoggingIds(e) ==
    LET at == LayersAtCall(e)
        logging == {i \in 1..Len(at) : at[i].logRequestResponse}
        nth(p) == CHOOSE i \in logging : Cardinality({j \in logging : j < i}) = p - 1
    IN  [p \in 1..Cardinality(logging) |-> IdsOf(e)[nth(p)]]

(***************************************************************************)
(* C30, amended: one fetch invocation after n setup calls reaches the      *)
(* original fetch once and passes through n wrappers, each generating its  *)
(* own correlation id; it emits one request event for each wrapper whose   *)
(* config has logRequestResponse on, outermost first, each with the id of  *)
(* its wrapper (n events when every setup call left request logging on).   *)
(***************************************************************************)
C30_OneRequestEventPerLoggingWrapper ==
    \A e \in Exchanges :
        Invoked(e) =>
            /\ ThroughEveryWrapper(e)
            /\ Len(LayersAtCall(e)) = SetupsAtCall(e)
            /\ Len(RequestEventsOf(e)) = Len(LoggingIds(e))
            /\ \A p \in 1..Len(RequestEventsOf(e)) :
                  /\ IsRequestEvent(RequestEventsOf(e)[p])
                  /\ RequestEventsOf(e)[p].record.correlationId = LoggingIds(e)[p]

\* three setup calls with request logging on, one invocation: three request
\* events with three ids, the original fetch called once, and its response
\* logged by the three wrappers from the innermost outwards
C30_Witness ==
    /\ Invoked(1) /\ SetupsAtCall(1) = 3 /\ fx[1].st = "resolved"
    /\ \A i \in 1..3 : LayersAtCall(1)[i].logRequestResponse
    /\ fx[1].originalCalls = 1
    /\ Len(RequestEventsOf(1)) = 3 /\ Count(EventsOf(1), "response") = 3
    /\ Cardinality({RequestEventsOf(1)[i].record.correlationId : i \in 1..3}) = 3
    /\ \A i \in 1..3 : Kind(EventsOf(1)[i]) = "request"

\* two setup calls, the second with logRequestResponse off: two wrappers,
\* two ids, one request event
C30_WitnessSilentWrapper ==
    /\ Invoked(1) /\ SetupsAtCall(1) = 2 /\ Len(IdsOf(1)) = 2
    /\ ~LayersAtCall(1)[1].logRequestResponse
    /\ LayersAtCall(1)[2].logRequestResponse
    /\ Len(RequestEventsOf(1)) = 1
    /\ RequestEventsOf(1)[1].record.correlationId = fx[1].inner[1]
====
